---- MODULE Spec2Model ----
(***************************************************************************)
(* Verification model of the WeworkBot n8n node: the delivery client       *)
(* (ApiClient.ts), the error classifier (ErrorHandler.ts), the API service *)
(* (WeworkApiService) and the node's execute loop (WeworkBot.node.ts).     *)
(*                                                                         *)
(* Strings are abstracted by the substring tests the code performs on      *)
(* them: an error message is the set of the tokens it contains, so that    *)
(* message.includes(t) is t \in msg.  A webhook URL is the record of the   *)
(* properties isValidWebhookUrl / validateWebhookUrl look at.              *)
(***************************************************************************)
EXTENDS Integers, Sequences, FiniteSets, TLC

(***************************************************************************)
(* Bounds of the model                                                     *)
(***************************************************************************)
\* largest number of input rows of one node execution
MaxRows == 2
\* the logger operations a behaviour calls
MaxLogOps == 3
\* the callers of withRetry running at the same time
NumCallers == 2
\* the withRetry calls a behaviour starts
MaxRetryCalls == 2
\* the longest project identifier, in characters
MaxIdLength == 3
\* the longest short Markdown content, in characters
MaxContentPieces == 4
\* the longest mention list given to the text formatter
MaxMentions == 3

(***************************************************************************)
(* Program constants                                                       *)
(***************************************************************************)
\* ApiClient.ts:19  maxRetries: 3
DefaultMaxRetries == 3
\* ApiClient.ts:20  retryDelay: 1000
DefaultRetryDelay == 1000
\* ApiClient.ts:21  retryBackoffFactor: 2
DefaultBackoffFactor == 2
\* ErrorHandler.ts:43  maxDelay: 30000
DefaultMaxDelay == 30000
\* ErrorHandler.ts:466  jitterRange = delay * 0.1, as a percentage
JitterPercent == 10

(***************************************************************************)
(* Error messages, as the set of tokens the code searches them for.        *)
(*   zhTimeout = '超时'   zhNetwork = '网络'   URL = 'URL' or 'url'         *)
(*   JSON = 'JSON' or 'parse'   InvalidURI = 'Invalid URI'                 *)
(***************************************************************************)
\* types.ts:84-94  class WeworkApiError extends Error (api = TRUE), and plain
\* Error values (api = FALSE, code unused).  text names the message.
ApiErr(code, text, msg) == [api |-> TRUE, code |-> code, name |-> "WeworkApiError", text |-> text, msg |-> msg]
PlainErr(name, text, msg) == [api |-> FALSE, code |-> 0, name |-> name, text |-> text, msg |-> msg]
NoError == PlainErr("none", "none", {})

\* ErrorHandler.ts:104-279  getErrorMessage(errcode, errmsg): the curated
\* message of the codes of the errorMessages table (those the model's inputs
\* can mention, with the tokens of their message), else the trimmed errmsg
\* when not blank, else the generic text
getErrorMessage(errcode, errmsg) ==
    IF errcode \in {0, -1, -2, -3, -4, -5, 40001, 42001, 42002, 42003, 44001, 44002, 44003, 44004, 45009, 93000}
    THEN [text |-> "curated",
          msg |-> CASE errcode \in {42001, 42002, 42003, -2} -> {"zhTimeout"}
                    [] errcode = -3 -> {"zhNetwork"}
                    [] errcode \in {-4, 93000} -> {"URL"}
                    [] OTHER -> {}]
    ELSE IF errmsg.blank = FALSE
         THEN [text |-> "errmsg", msg |-> errmsg.msg]
         ELSE [text |-> "unknownApiError", msg |-> {}]

\* ErrorHandler.ts:50-53  createApiError(response)
createApiErrorFromResponse(response) ==
    LET m == getErrorMessage(response.errcode, response.errmsg)
    IN  ApiErr(response.errcode, m.text, m.msg)

\* ErrorHandler.ts:58-82  createGenericError(error, defaultCode = -1)
createGenericError(error) ==
    IF error.api THEN error
    ELSE IF "zhTimeout" \in error.msg \/ "timeout" \in error.msg
         THEN ApiErr(-2, "timeoutCheckNetwork", {"zhTimeout", "zhNetwork"})
    ELSE IF "zhNetwork" \in error.msg \/ "network" \in error.msg \/ "fetch" \in error.msg
         THEN ApiErr(-3, "networkFailed", {"zhNetwork"})
    ELSE IF "URL" \in error.msg
         THEN ApiErr(-4, "invalidWebhookUrl", {"URL"})
    ELSE IF "JSON" \in error.msg
         THEN ApiErr(-5, "badResponseData", {})
    ELSE ApiErr(-1, error.text, error.msg)

\* the list with the invalid-key code 93000 added
RetryableCodesWithInvalidKey == {-1, -2, -3, 42001, 42002, 45009, 93000}

\* ErrorHandler.ts:285-292  retryableCodes
RetryableCodes == {-1, -2, -3, 42001, 42002, 45009}

\* ErrorHandler.ts:284-295  isRetryableError(error)
isRetryableError(error) == error.code \in RetryableCodes

\* shouldRetry without its classification fallback: only the message test
shouldRetryMessageOnly(error) ==
    "zhNetwork" \in error.msg \/ "zhTimeout" \in error.msg \/ "fetch" \in error.msg

\* ApiClient.ts:283-297  shouldRetry(error)
shouldRetry(error) ==
    IF "zhNetwork" \in error.msg \/ "zhTimeout" \in error.msg \/ "fetch" \in error.msg
    THEN TRUE
    ELSE IF error.api
         THEN isRetryableError(error)
         ELSE isRetryableError(createGenericError(error))

RECURSIVE Pow(_, _)
\* Math.pow(base, e); every call of the program has a natural exponent
Pow(base, e) == IF e <= 0 THEN 1 ELSE base * Pow(base, e - 1)

\* ErrorHandler.ts:455-463  calculateRetryDelay before the jitter:
\* min(baseDelay * backoffFactor^(attempt-1), maxDelay)
calculateRetryDelayBase(att, baseDelay, backoffFactor, maxDelay) ==
    LET delay == baseDelay * Pow(backoffFactor, att - 1)
    IN  IF delay <= maxDelay THEN delay ELSE maxDelay

(***************************************************************************)
(* Webhook URLs, as the properties the validators read                     *)
(***************************************************************************)
\* a hostname is the sequence of its labels; host is the hostname of the
\* parsed URL, path says that the pathname contains 'webhook' or 'send'
Url(empty, parse, https, host, path) ==
    [empty |-> empty, parse |-> parse, https |-> https, host |-> host, path |-> path]
\* ApiClient.ts:312  'qyapi.weixin.qq.com'
ApiHost == <<"qyapi", "weixin", "qq", "com">>
\* String.prototype.includes, on sequences: of the labels of a hostname, of
\* the characters of a key
includes(hay, needle) ==
    \E i \in 0..(Len(hay) - Len(needle)) : SubSeq(hay, i + 1, i + Len(needle)) = needle
UrlValid == Url(FALSE, TRUE, TRUE, ApiHost, TRUE)
\* a URL whose hostname, of another domain, has the API host as a substring
UrlLookalikeHost == Url(FALSE, TRUE, TRUE, <<"qyapi", "weixin", "qq", "com", "attacker", "example">>, TRUE)
\* the URLs of the model: the valid one, http, another host, the look-alike
\* host, http to another host, another path, unparseable text, the empty string
Urls ==
    {UrlValid,
     Url(FALSE, TRUE, FALSE, ApiHost, TRUE),
     Url(FALSE, TRUE, TRUE, <<"invalid-url", "com">>, TRUE),
     UrlLookalikeHost,
     Url(FALSE, TRUE, FALSE, <<"invalid-url", "com">>, FALSE),
     Url(FALSE, TRUE, TRUE, ApiHost, FALSE),
     Url(FALSE, FALSE, FALSE, <<>>, FALSE),
     Url(TRUE, FALSE, FALSE, <<>>, FALSE)}

\* ApiClient.ts:302-325  isValidWebhookUrl(url)
isValidWebhookUrl(url) ==
    IF ~url.parse THEN FALSE
    ELSE IF ~url.https THEN FALSE
    ELSE IF ~includes(url.host, ApiHost) THEN FALSE
    ELSE IF ~url.path THEN FALSE
    ELSE TRUE

(***************************************************************************)
(* What helpers.httpRequest can do with one POST: resolve with a body, or  *)
(* reject with a value that may carry a response.                          *)
(***************************************************************************)
ErrMsg(blank, msg) == [blank |-> blank, msg |-> msg]
Body(shape, errcode, errmsg) == [shape |-> shape, errcode |-> errcode, errmsg |-> errmsg]
\* a body with numeric errcode and string errmsg
ApiBody(errcode) == Body("object", errcode, ErrMsg(FALSE, {}))
NoBody == Body("absent", 0, ErrMsg(TRUE, {}))

HelperResult(resolved, body, thrown) == [resolved |-> resolved, body |-> body, thrown |-> thrown]
\* rejections without a response that are transport failures: a timeout of
\* the request library, a timeout text, a connection failure, a network
\* text, a thrown non-Error value
TransportThrown ==
    {PlainErr("RequestError", "ext", {"timeout"}),
     PlainErr("Error", "ext", {"timeout"}),
     PlainErr("Error", "ext", {}),
     PlainErr("Error", "ext", {"network"}),
     PlainErr("nonError", "ext", {})}
\* what the helper does in the model.  It resolves with a body of some
\* errcode, with a body parseApiResponse rejects (not an object, errcode not
\* a number, errmsg not a string), or with an unknown code and a message;
\* it rejects without a response (a transport failure, a URL the helper
\* refuses, a JSON parse failure); it rejects with an HTTP response
HelperResults ==
    {HelperResult(TRUE, b, NoError) :
        b \in {ApiBody(c) : c \in {0, 42001, 42003, 45009, 93000, 99999}}
              \cup {Body(sh, 0, ErrMsg(TRUE, {})) : sh \in {"notObject", "noErrcode", "noErrmsg"}}
              \cup {Body("object", 99999, ErrMsg(FALSE, {"zhTimeout"})),
                    Body("object", 99999, ErrMsg(TRUE, {}))}}
    \cup {HelperResult(FALSE, NoBody, e) :
            e \in TransportThrown \cup {PlainErr("Error", "ext", {"InvalidURI"}),
                                        PlainErr("Error", "ext", {"JSON"})}}
    \cup {HelperResult(FALSE, b, PlainErr("Error", "ext", {})) :
            b \in {ApiBody(0), ApiBody(93000), ApiBody(45009), Body("notObject", 0, ErrMsg(TRUE, {}))}}

\* ApiClient.ts:246-264  parseApiResponse(data): the error it throws, or ok
parseApiResponse(data) ==
    IF data.shape \in {"notObject", "absent"}
    THEN [ok |-> FALSE, error |-> PlainErr("Error", "invalidResponseFormat", {})]
    ELSE IF data.shape = "noErrcode"
    THEN [ok |-> FALSE, error |-> PlainErr("Error", "missingErrcode", {})]
    ELSE IF data.shape = "noErrmsg"
    THEN [ok |-> FALSE, error |-> PlainErr("Error", "missingErrmsg", {})]
    ELSE [ok |-> TRUE, error |-> NoError]

\* ApiClient.ts:230-237  the rewriting of timeouts and refused URIs
rewriteProcessedError(e) ==
    IF e.name = "RequestError" /\ "timeout" \in e.msg
    THEN PlainErr("Error", "requestTimeout", {"zhTimeout"})
    ELSE IF "InvalidURI" \in e.msg
    THEN PlainErr("Error", "invalidWebhookUrl", {"URL"})
    ELSE e

\* ApiClient.ts:207-240  the catch block of makeHttpRequest: e is the value
\* caught, body is e.response.body (absent when e has no response)
processCaught(e, body) ==
    LET asError == IF e.name = "nonError" THEN PlainErr("Error", "requestFailed", {}) ELSE e
        fromBody == IF body.shape \in {"object", "noErrcode", "noErrmsg"} /\ parseApiResponse(body).ok
                    THEN createApiErrorFromResponse(body)
                    ELSE asError
    IN  rewriteProcessedError(fromBody)

\* the errcode test written as "not negative": errcode 0 counts as a failure
apiFailureIncludesZero(response) == response.errcode >= 0

\* ApiClient.ts:202  if (apiResponse.errcode !== 0) throw
apiFailure(response) == response.errcode # 0

Failure(called, e) == [ok |-> FALSE, called |-> called, response |-> NoBody, error |-> e]

\* ApiClient.ts:156-241  makeHttpRequest(webhookUrl, message), given what the
\* helper does if it is called: the response returned or the error thrown,
\* and whether helpers.httpRequest was called
makeHttpRequest(helpers, url, h) ==
    IF ~helpers THEN Failure(FALSE, PlainErr("Error", "helpersNotConfigured", {}))
    ELSE IF ~isValidWebhookUrl(url) THEN Failure(FALSE, PlainErr("Error", "invalidWebhookUrl", {"URL"}))
    ELSE IF h.resolved
         THEN IF ~parseApiResponse(h.body).ok
              THEN Failure(TRUE, processCaught(parseApiResponse(h.body).error, NoBody))
              ELSE IF apiFailure(h.body)
                   \* the WeworkApiError thrown at line 203 is caught at 207;
                   \* its response field is the API response, which has no body
                   THEN Failure(TRUE, processCaught(createApiErrorFromResponse(h.body), NoBody))
                   ELSE [ok |-> TRUE, called |-> TRUE, response |-> h.body, error |-> NoError]
         ELSE Failure(TRUE, processCaught(h.thrown, h.body))

(***************************************************************************)
(* State                                                                   *)
(***************************************************************************)
VARIABLES
    config,        \* WeworkApiClient.config: maxRetries, retryDelay, retryBackoffFactor
    hasHelpers,    \* WeworkApiClient.executeFunctions is defined
    cUrl,          \* webhookUrl argument of the running sendMessage
    cPc,           \* sendMessage: "idle", "try" (loop head), "sleep" (awaiting sleep), "done"
    attempt,       \* sendMessage local: attempt
    lastError,     \* sendMessage local: lastError
    delay,         \* sendMessage local: delay of the pending sleep
    cResult,       \* how sendMessage ended: the response returned or the error thrown
    httpCalls,     \* observation: calls of helpers.httpRequest in this sendMessage
    sleeps,        \* observation: the delays slept in this sendMessage, in order
    history,       \* observation: per attempt, the kind of outcome and its classification
    lastOutcome,   \* observation: what the helper did in the latest attempt
    webhookUrl,    \* execute: credentials.webhookUrl
    continueOnFail,\* execute: this.continueOnFail()
    rowCount,      \* execute: items.length
    itemIndex,     \* execute: itemIndex
    returnData,    \* execute: returnData
    nPc,           \* execute: "off", "loop", "await" (awaiting apiService.sendMessage), "returned", "raised"
    rowFailed,     \* observation: per processed row, whether it failed
    sendCalls,     \* observation: the rows for which apiService.sendMessage called the client
    httpRows,      \* observation: the rows whose send call called helpers.httpRequest
    rowStage,      \* observation: per row taken up, "rejected" when its kind is unknown, its
                   \* formatter throws or its validation fails, else "accepted"
    svcLast,       \* observation: the result the latest apiService.sendMessage resolved with
    svcReturns,    \* observation: how many times apiService.sendMessage resolved
    tcState,       \* testConnection: "off", "running", or how it ended: "true", "false", "raised"
    loggers,       \* the parent and the child WeworkLogger: config and logEntries reference
    heap,          \* the logEntries arrays
    accepted,      \* observation: per array, the ids of the entries stored since it was cleared
    consoleLines,  \* observation: the number of console writes
    opCount,       \* observation: the number of logger operations called
    lastOp,        \* observation: the latest logger operation
    ehError,       \* the error given to ErrorHandler.isRetryableError
    ehRetryable,   \* what isRetryableError returned: "unset", "true" or "false"
    txInput,       \* the NodeInputData given to TextMessageHandler.formatMessage
    txOutput,      \* what formatMessage did: the TextMessage returned, or that it threw
    errorStats,    \* ErrorHandler.errorStats
    retryCalls,    \* per caller of ErrorHandler.withRetry: its position, its locals, and what
                   \* its current call has done
    callsStarted,  \* observation: the number of withRetry calls started
    recorded,      \* observation: the number of recordError calls since the latest reset
    statsOp,       \* observation: the latest operation on errorStats
    mdInput,       \* the markdownContent given to MarkdownMessageHandler.formatMessage
    mdFormatted,   \* what formatMessage did: the content returned, or that it threw
    mdAgain,       \* what sanitizeMarkdown returned for the formatted content
    mdErrors,      \* the balance checks of validateMarkdownSyntax that the formatted content fails
    glResource,    \* GitLabApi.execute: the parameter resource
    glOperation,   \* GitLabApi.execute: the parameter operation
    glContinue,    \* GitLabApi.execute: this.continueOnFail()
    glItemCount,   \* GitLabApi.execute: items.length
    glIndex,       \* GitLabApi.execute: i
    glPc,          \* GitLabApi.execute: "off", "loop", "await" (awaiting the HTTP helper),
                   \* "returned", "raised"
    glProjectId,   \* GitLabApi.execute: the projectId parameter of item i
    glRequest,     \* observation: whether a request was sent for item i, and its url
    glReturnData   \* GitLabApi.execute: returnData, per record its item and whether it is an error

clientVars == <<cUrl, cPc, attempt, lastError, delay, cResult, httpCalls, sleeps, history, lastOutcome, httpRows>>
nodeVars == <<webhookUrl, continueOnFail, rowCount, itemIndex, returnData, nPc, rowFailed, sendCalls, rowStage, svcLast, svcReturns>>
loggerVars == <<loggers, heap, accepted, consoleLines, opCount, lastOp>>
pureVars == <<ehError, ehRetryable, txInput, txOutput>>
retryVars == <<errorStats, retryCalls, callsStarted, recorded, statsOp>>
mdVars == <<mdInput, mdFormatted, mdAgain, mdErrors>>
glVars == <<glResource, glOperation, glContinue, glItemCount, glIndex, glPc, glProjectId, glRequest, glReturnData>>
extraVars == <<retryVars, mdVars, glVars>>
vars == <<config, hasHelpers, tcState, clientVars, nodeVars, loggerVars, pureVars, extraVars>>

Config(maxRetries, retryDelay, factor) ==
    [maxRetries |-> maxRetries, retryDelay |-> retryDelay, retryBackoffFactor |-> factor]

\* retryDelay values a caller configures: the test's 10 ms (ApiClient.test.ts:119),
\* the default, and a long base delay
\* ApiClient.ts:16-27  constructor: the defaults overridden by the caller's config
\* WeworkBot.node.ts:89-95  the config execute passes: maxRetries 3, retryDelay 1000
NodeConfig == Config(3, 1000, DefaultBackoffFactor)

NoResult == [kind |-> "none", response |-> NoBody, error |-> NoError]
Returned(response) == [kind |-> "returned", response |-> response, error |-> NoError]
Raised(error) == [kind |-> "raised", response |-> NoBody, error |-> error]
NoOutcome == HelperResult(FALSE, NoBody, NoError)

\* types.ts:68-75  NodeOutputData, with the input row it belongs to
OutputRecord(row, success, errorCode, messageType) ==
    [row |-> row, success |-> success, errorCode |-> errorCode, messageType |-> messageType]

\* a value of svcLast: the result the service resolved with, whether its client
\* call made more than one attempt, whether an attempt got errcode 0 back, and
\* the error the service caught
SvcEntry(result, retried, okSeen, caught) ==
    [result |-> result, retried |-> retried, okSeen |-> okSeen,
     caughtApi |-> caught.api, caughtCode |-> caught.code]

\* the kind of an attempt's outcome, for the observations
OutcomeKind(helpers, url, h) ==
    IF ~helpers THEN "noHelper"
    ELSE IF ~isValidWebhookUrl(url) THEN "badUrl"
    ELSE IF h.resolved
         THEN IF ~parseApiResponse(h.body).ok THEN "transport"
              ELSE IF h.body.errcode = 0 THEN "ok" ELSE "api"
         ELSE IF h.body.shape = "absent"
              THEN IF h.thrown \in TransportThrown THEN "transport" ELSE "other"
              ELSE IF h.body.shape = "object"
                   THEN IF h.body.errcode = 0 THEN "errorBodyOk" ELSE "api"
                   ELSE "other"

(***************************************************************************)
(* WeworkLogger (Logger.ts)                                                *)
(***************************************************************************)
\* Logger.ts:6-12  enum LogLevel
DEBUG == 0
INFO == 1
WARN == 2
ERROR == 3
NONE == 4

\* strings are sequences of characters
Stars == <<"*", "*", "*", "*">>

\* String.prototype.toLowerCase, on the letters the model's keys are made of
toLowerCase(s) ==
    [i \in 1..Len(s) |-> CASE s[i] = "A" -> "a"
                           [] s[i] = "K" -> "k"
                           [] s[i] = "U" -> "u"
                           [] OTHER -> s[i]]

\* Logger.ts:275-278  sensitiveKeys
sensitiveKeys ==
    { <<"w","e","b","h","o","o","k">>,
      <<"w","e","b","h","o","o","k","U","r","l">>,
      <<"k","e","y">>,
      <<"t","o","k","e","n">>,
      <<"s","e","c","r","e","t">>,
      <<"p","a","s","s","w","o","r","d">>,
      <<"a","u","t","h","o","r","i","z","a","t","i","o","n">>,
      <<"a","u","t","h">>,
      <<"c","r","e","d","e","n","t","i","a","l">>,
      <<"a","p","i","_","k","e","y">>,
      <<"a","p","i","K","e","y">> }

\* the values log() is given as data: strings, numbers, objects (a function
\* from keys to values), arrays, and undefined
Value(t, s, f, e) == [t |-> t, s |-> s, f |-> f, e |-> e]
NoFields == [k \in {} |-> 0]
StrV(s) == Value("string", s, NoFields, <<>>)
ObjV(f) == Value("object", <<>>, f, <<>>)
Undefined == Value("undefined", <<>>, NoFields, <<>>)

\* the replacement that leaves a long string as it is
maskedValueKeepsLong(value) ==
    IF value.t = "string" /\ Len(value.s) > 8 THEN value ELSE StrV(Stars)

\* Logger.ts:286-291  the replacement of a sensitive field's value
maskedValue(value) ==
    IF value.t = "string" /\ Len(value.s) > 8
    THEN StrV(SubSeq(value.s, 1, 4) \o Stars \o SubSeq(value.s, Len(value.s) - 3, Len(value.s)))
    ELSE StrV(Stars)

\* Logger.ts:280-297  the copy of an object or array with its fields masked;
\* an array's keys are its indices, which are never sensitive
RECURSIVE maskFields(_)
maskFields(data) ==
    IF data.t = "object"
    THEN ObjV([key \in DOMAIN data.f |->
                 \* Logger.ts:283-285  sensitiveKeys.some(k => key.toLowerCase().includes(k.toLowerCase()))
                 IF \E sensitiveKey \in sensitiveKeys : includes(toLowerCase(key), toLowerCase(sensitiveKey))
                 THEN maskedValue(data.f[key])
                 ELSE IF data.f[key].t \in {"object", "array"} THEN maskFields(data.f[key])
                 ELSE data.f[key]])
    ELSE Value("array", <<>>, NoFields,
               [i \in 1..Len(data.e) |->
                 IF data.e[i].t \in {"object", "array"} THEN maskFields(data.e[i])
                 ELSE data.e[i]])

\* Logger.ts:266-298  maskSensitiveData(data)
maskSensitiveData(cfg, data) ==
    IF ~cfg.maskSensitiveData THEN data
    ELSE IF data.t \notin {"object", "array"} THEN data
    ELSE maskFields(data)

\* the data the model's callers log
kToken == <<"t","o","k","e","n">>
kUser == <<"u","s","e","r">>
Secret9 == <<"s","e","c","r","e","t","1","2","3">>
DataNested ==
    ObjV((kToken :> StrV(Secret9))
         @@ (<<"a","p","i","K","e","y">> :> StrV(<<"1","2","3","4","5","6","7","8">>))
         @@ (kUser :> ObjV((<<"A","U","t","h">> :> Value("number", <<>>, NoFields, <<>>))
                           @@ (kToken :> ObjV((kUser :> StrV(Secret9))))
                           @@ (kUser :> StrV(Secret9))))
         @@ (<<"i","t","e","m","s">> :>
                Value("array", <<>>, NoFields,
                      <<ObjV((kToken :> StrV(Secret9))), StrV(<<"1","2","3","4","5","6","7","8">>)>>)))

\* Logger.ts:25-32  LoggerConfig, with the array the logger's logEntries field
\* refers to (buf) and whether the logger was constructed
LoggerState(exists, level, maxLogEntries, enableStructuredLogging, enableConsole, mask, buf) ==
    [exists |-> exists, level |-> level, maxLogEntries |-> maxLogEntries,
     enableStructuredLogging |-> enableStructuredLogging, enableConsole |-> enableConsole,
     maskSensitiveData |-> mask, buf |-> buf]
LoggerNames == {"parent", "child"}
ParentBuffer == 1
\* the child's logEntries being the parent's array
childBufferShared == ParentBuffer
\* Logger.ts:39  private logEntries: LogEntry[] = []  (a new array per logger)
childBuffer == 2

\* Array.prototype.slice(start)
slice(arr, start) ==
    LET len == Len(arr)
        from == IF start < 0
                THEN (IF len + start > 0 THEN len + start ELSE 0)
                ELSE (IF start < len THEN start ELSE len)
    IN  SubSeq(arr, from + 1, len)

\* Logger.ts:231-238  storeLogEntry(entry)
storeLogEntry(logEntries, entry, maxLogEntries) ==
    LET pushed == Append(logEntries, entry)
    IN  IF Len(pushed) > maxLogEntries THEN slice(pushed, 0 - maxLogEntries) ELSE pushed

\* the level test letting every call through
belowLevelNever(level, cfg) == FALSE

\* Logger.ts:202  if (level < this.config.level) return
belowLevel(level, cfg) == level < cfg.level

Buffer(l) == heap[loggers[l].buf]

\* an operation of the logger API is counted and remembered
LoggerOp(op, l, level) ==
    /\ opCount < MaxLogOps
    /\ opCount' = opCount + 1
    /\ lastOp' = [op |-> op, logger |-> l, level |-> level]

\* Logger.ts:200-226  log(level, message, data), called through debug(),
\* info(), warn() or error()
Log(l, level, data) ==
    LET cfg == loggers[l]
        \* Logger.ts:14-23  LogEntry: id stands for its timestamp and message,
        \* orig keeps the data argument the entry was logged with
        entry == [id |-> opCount + 1, level |-> level,
                  data |-> IF data.t = "undefined" THEN Undefined ELSE maskSensitiveData(cfg, data),
                  orig |-> data, context |-> l]
    IN  /\ cfg.exists
        /\ LoggerOp("log", l, level)
        /\ IF belowLevel(level, cfg)
           THEN UNCHANGED <<heap, accepted, consoleLines>>
           ELSE /\ IF cfg.enableStructuredLogging
                   THEN /\ heap' = [heap EXCEPT ![cfg.buf] = storeLogEntry(@, entry, cfg.maxLogEntries)]
                        /\ accepted' = [accepted EXCEPT ![cfg.buf] = Append(@, entry.id)]
                   ELSE UNCHANGED <<heap, accepted>>
                /\ consoleLines' = consoleLines + (IF cfg.enableConsole THEN 1 ELSE 0)
        /\ UNCHANGED loggers

LogCall ==
    /\ \E l \in LoggerNames, level \in {DEBUG, INFO, WARN, ERROR}, data \in {Undefined, DataNested} : Log(l, level, data)
    /\ UNCHANGED <<pureVars, extraVars, config, hasHelpers, tcState, clientVars, nodeVars>>

\* Logger.ts:358-360  clearLogEntries()
ClearLogEntries ==
    /\ \E l \in LoggerNames :
          /\ loggers[l].exists
          /\ LoggerOp("clear", l, DEBUG)
          /\ heap' = [heap EXCEPT ![loggers[l].buf] = <<>>]
          /\ accepted' = [accepted EXCEPT ![loggers[l].buf] = <<>>]
    /\ UNCHANGED <<loggers, consoleLines>>
    /\ UNCHANGED <<pureVars, extraVars, config, hasHelpers, tcState, clientVars, nodeVars>>

\* Logger.ts:388-390  setLogLevel(level)
SetLogLevel ==
    /\ \E l \in LoggerNames, level \in {DEBUG, INFO, WARN, ERROR, NONE} :
          /\ loggers[l].exists
          /\ LoggerOp("setLogLevel", l, level)
          /\ loggers' = [loggers EXCEPT ![l].level = level]
    /\ UNCHANGED <<heap, accepted, consoleLines>>
    /\ UNCHANGED <<pureVars, extraVars, config, hasHelpers, tcState, clientVars, nodeVars>>

\* Logger.ts:408-410, 42-53  createChildLogger(context): a new logger with a
\* copy of the parent's config and its own logEntries
CreateChildLogger ==
    /\ ~loggers["child"].exists
    /\ LoggerOp("createChildLogger", "child", DEBUG)
    /\ loggers' = [loggers EXCEPT !["child"] = [loggers["parent"] EXCEPT !.exists = TRUE, !.buf = childBuffer]]
    /\ UNCHANGED <<heap, accepted, consoleLines>>
    /\ UNCHANGED <<pureVars, extraVars, config, hasHelpers, tcState, clientVars, nodeVars>>

(***************************************************************************)
(* ErrorHandler.isRetryableError as a caller uses it                       *)
(***************************************************************************)
\* ErrorHandler.ts:284-295  a call of isRetryableError(error)
IsRetryableErrorCall ==
    /\ ehRetryable = "unset"
    /\ ehRetryable' = IF isRetryableError(ehError) THEN "true" ELSE "false"
    /\ UNCHANGED <<ehError, txInput, txOutput>>
    /\ UNCHANGED <<loggerVars, extraVars, config, hasHelpers, tcState, clientVars, nodeVars>>

(***************************************************************************)
(* TextMessageHandler.formatMessage (message-handlers/ImageMessageHandler.ts) *)
(***************************************************************************)
\* part_007:8  maxContentLength of the default handler config
DefaultMaxContentLength == 4096

\* A string is the first len characters of the input content followed by
\* the suffix appended to it; blank says the input is all whitespace
Str(len, blank, suffix) == [len |-> len, blank |-> blank, suffix |-> suffix]
\* ImageMessageHandler.ts:159  the suffix '...(已截断)', 8 characters
TextSuffix == "textTruncated"
length(str) == str.len + (IF str.suffix = TextSuffix THEN 8 ELSE 0)

\* String.prototype.substring(0, end), end below 0 counting as 0
substring(str, end) ==
    LET e == IF end < 0 THEN 0 ELSE end
    IN  Str(IF e < str.len THEN e ELSE str.len, str.blank, str.suffix)

\* truncateString returning the string as it is
truncateStringKeepsAll(str, maxLength, suffix) == str

\* part_001:424-429  Utils.truncateString(str, maxLength, suffix)
truncateString(str, maxLength, suffix) ==
    IF length(str) <= maxLength THEN str
    ELSE [substring(str, maxLength - (IF suffix = TextSuffix THEN 8 ELSE 0)) EXCEPT !.suffix = suffix]  \* suffix.length

\* a mention value: its text, and whether it is blank or a mobile number
\* matching /^1[3-9]\d{9}$/
Mention(text, blank, mobile) == [text |-> text, blank |-> blank, mobile |-> mobile]
MentionValues ==
    { Mention("zhangsan", FALSE, FALSE), Mention("13800138000", FALSE, TRUE), Mention(" ", TRUE, FALSE) }

\* a de-duplication keeping the last occurrence of a value
uniqueKeepsLast(list) ==
    LET kept == {i \in 1..Len(list) : \A j \in (i + 1)..Len(list) : list[j] # list[i]}
    IN  [k \in 1..Cardinality(kept) |->
            list[CHOOSE i \in kept : Cardinality({j \in kept : j <= i}) = k]]

\* Array.from(new Set(list)): the values in the order of their first occurrence
uniqueInOrder(list) ==
    LET kept == {i \in 1..Len(list) : \A j \in 1..(i - 1) : list[j] # list[i]}
    IN  [k \in 1..Cardinality(kept) |->
            list[CHOOSE i \in kept : Cardinality({j \in kept : j <= i}) = k]]


NodeInputData(content, mentionedUsers, mentionedMobiles) ==
    [content |-> content, mentionedUsers |-> mentionedUsers, mentionedMobiles |-> mentionedMobiles]
TextMessage(threw, content, mentioned_list, mentioned_mobile_list) ==
    [threw |-> threw, content |-> content,
     mentioned_list |-> mentioned_list, mentioned_mobile_list |-> mentioned_mobile_list]
NoMessage == [threw |-> FALSE, content |-> Str(0, TRUE, "unset"),
              mentioned_list |-> <<>>, mentioned_mobile_list |-> <<>>]

\* ImageMessageHandler.ts:151-189  TextMessageHandler.formatMessage(inputData)
\* with the default config; an absent mention list is the empty list
formatTextMessage(inputData) ==
    \* part_001:406-408  Utils.isEmptyOrWhitespace(content)
    IF length(inputData.content) = 0 \/ inputData.content.blank
    THEN TextMessage(TRUE, Str(0, TRUE, ""), <<>>, <<>>)
    ELSE LET content == IF length(inputData.content) > DefaultMaxContentLength
                        THEN truncateString(inputData.content, DefaultMaxContentLength - 10, TextSuffix)
                        ELSE inputData.content
         IN  TextMessage(FALSE, content,
                         uniqueInOrder(SelectSeq(inputData.mentionedUsers, LAMBDA m : ~m.blank)),
                         uniqueInOrder(SelectSeq(SelectSeq(inputData.mentionedMobiles, LAMBDA m : ~m.blank),
                                                LAMBDA m : m.mobile)))

\* the content lengths of the model's inputs, around the limit and far from it
MentionLists == UNION {[1..n -> MentionValues] : n \in 0..MaxMentions}

\* a call of formatMessage(inputData)
FormatTextMessage ==
    /\ txOutput = NoMessage
    /\ txOutput' = formatTextMessage(txInput)
    /\ UNCHANGED <<ehError, ehRetryable, txInput>>
    /\ UNCHANGED <<loggerVars, extraVars, config, hasHelpers, tcState, clientVars, nodeVars>>

(***************************************************************************)
(* MarkdownMessageHandler (message-handlers/FileMessageHandler.ts) and     *)
(* MessageValidator.validateMarkdownSyntax                                 *)
(***************************************************************************)
\* Markdown content is a sequence of pieces: a marker character (star for '*', tick for
\* a backtick, lt for '<', gt for '>') or a run of n characters that no pattern of the sanitizer and
\* of the validator singles out; two runs are never adjacent
Marker(ch) == [c |-> ch, n |-> 1]
Plain(n) == [c |-> "a", n |-> n]

\* String.prototype.length
RECURSIVE mdLength(_)
mdLength(s) == IF s = <<>> THEN 0 ELSE s[1].n + mdLength(Tail(s))

\* string concatenation: the runs that meet become one run
concat(s, t) ==
    IF s = <<>> THEN t
    ELSE IF t = <<>> THEN s
    ELSE IF s[Len(s)].c = "a" /\ t[1].c = "a"
         THEN SubSeq(s, 1, Len(s) - 1) \o <<Plain(s[Len(s)].n + t[1].n)>> \o Tail(t)
         ELSE s \o t

\* the character at piece i of s is ch
IsCh(s, i, ch) == i \in 1..Len(s) /\ s[i].c = ch
\* the first piece from i on that is the character ch, 0 when there is none
FirstCh(s, i, ch) ==
    IF \E j \in i..Len(s) : s[j].c = ch
    THEN CHOOSE j \in i..Len(s) : s[j].c = ch /\ \A k \in i..(j - 1) : s[k].c # ch
    ELSE 0

\* FileMessageHandler.ts:193  content.replace(/<[^>]*?>/g, '')
RECURSIVE stripTagsFrom(_, _)
stripTagsFrom(s, i) ==
    IF i > Len(s) THEN <<>>
    ELSE IF s[i].c = "lt" /\ FirstCh(s, i + 1, "gt") # 0
         THEN stripTagsFrom(s, FirstCh(s, i + 1, "gt") + 1)
         ELSE concat(<<s[i]>>, stripTagsFrom(s, i + 1))

\* the number of matches of a pattern of width consecutive characters ch,
\* /\*\*/g and the pattern of three backticks: matches do not overlap and are found from the left
RECURSIVE countRunsFrom(_, _, _, _)
countRunsFrom(s, i, ch, width) ==
    IF i + width - 1 > Len(s) THEN 0
    ELSE IF \A k \in i..(i + width - 1) : s[k].c = ch
         THEN 1 + countRunsFrom(s, i + width, ch, width)
         ELSE countRunsFrom(s, i + 1, ch, width)
countMatches(s, ch, width) == countRunsFrom(s, 1, ch, width)

IsFence(s, i) == IsCh(s, i, "tick") /\ IsCh(s, i + 1, "tick") /\ IsCh(s, i + 2, "tick")
\* the first fence from i on, 0 when there is none
FirstFence(s, i) ==
    IF \E j \in i..Len(s) : IsFence(s, j)
    THEN CHOOSE j \in i..Len(s) : IsFence(s, j) /\ \A k \in i..(j - 1) : ~IsFence(s, k)
    ELSE 0

\* FileMessageHandler.ts:230  content.replace of a fence, any characters (lazy), a fence
RECURSIVE removeCodeBlocksFrom(_, _)
removeCodeBlocksFrom(s, i) ==
    IF i > Len(s) THEN <<>>
    ELSE IF IsFence(s, i) /\ FirstFence(s, i + 3) # 0
         THEN removeCodeBlocksFrom(s, FirstFence(s, i + 3) + 3)
         ELSE <<s[i]>> \o removeCodeBlocksFrom(s, i + 1)

\* FileMessageHandler.ts:217, part_001:189  content.replace(/\*\*[^*]*\*\*/g, ''):
\* after an opening '**' the next '*' must be followed by a '*'
RECURSIVE removeBoldFrom(_, _)
removeBoldFrom(s, i) ==
    IF i > Len(s) THEN <<>>
    ELSE IF /\ IsCh(s, i, "star") /\ IsCh(s, i + 1, "star")
            /\ FirstCh(s, i + 2, "star") # 0
            /\ IsCh(s, FirstCh(s, i + 2, "star") + 1, "star")
         THEN removeBoldFrom(s, FirstCh(s, i + 2, "star") + 2)
         ELSE <<s[i]>> \o removeBoldFrom(s, i + 1)

\* the number of matches of /(?<!\*)\*(?!\*)/g
countLoneStars(s) ==
    Cardinality({i \in 1..Len(s) : IsCh(s, i, "star") /\ ~IsCh(s, i - 1, "star") /\ ~IsCh(s, i + 1, "star")})

Odd(n) == n % 2 = 1

\* FileMessageHandler.ts:224-238  fixCodeBlocks(content)
fixCodeBlocks(content) ==
    LET fenced == IF Odd(countMatches(content, "tick", 3))
                  THEN concat(content, <<Plain(1)>> \o <<Marker("tick"), Marker("tick"), Marker("tick")>>)
                  ELSE content
        rest == removeCodeBlocksFrom(fenced, 1)
    IN  IF Odd(Cardinality({i \in 1..Len(rest) : rest[i].c = "tick"}))
        THEN concat(fenced, <<Marker("tick")>>)
        ELSE fenced

\* FileMessageHandler.ts:208-214  fixBoldSyntax(content)
fixBoldSyntax(content) ==
    IF Odd(countMatches(content, "star", 2)) THEN concat(content, <<Marker("star"), Marker("star")>>) ELSE content

\* FileMessageHandler.ts:216-223  fixItalicSyntax(content)
fixItalicSyntax(content) ==
    IF Odd(countLoneStars(removeBoldFrom(content, 1))) THEN concat(content, <<Marker("star")>>) ELSE content

\* FileMessageHandler.ts:191-206  sanitizeMarkdown(content), for content
\* without '<script' and without '[': the first and the third replace leave
\* such content as it is
sanitizeMarkdown(content) == fixItalicSyntax(fixBoldSyntax(fixCodeBlocks(stripTagsFrom(content, 1))))

\* String.prototype.substring(0, end)
RECURSIVE mdSubstring(_, _)
mdSubstring(s, end) ==
    IF end <= 0 \/ s = <<>> THEN <<>>
    ELSE IF s[1].n <= end THEN concat(<<s[1]>>, mdSubstring(Tail(s), end - s[1].n))
         ELSE <<[s[1] EXCEPT !.n = end]>>

\* part_001:424-429  Utils.truncateString(str, maxLength, suffix) on content
mdTruncateString(str, maxLength, suffix) ==
    IF mdLength(str) <= maxLength THEN str
    ELSE concat(mdSubstring(str, maxLength - mdLength(suffix)), suffix)

\* FileMessageHandler.ts:166-185  MarkdownMessageHandler.formatMessage(inputData)
\* with the default config
formatMarkdownMessage(markdownContent) ==
    IF markdownContent = <<>>
    THEN [run |-> TRUE, threw |-> TRUE, content |-> <<>>]
    ELSE LET content == IF mdLength(markdownContent) > DefaultMaxContentLength
                        THEN \* FileMessageHandler.ts:174  the suffix has 12 characters
                             mdTruncateString(markdownContent, DefaultMaxContentLength - 15, <<Plain(12)>>)
                        ELSE markdownContent
         IN  [run |-> TRUE, threw |-> FALSE, content |-> sanitizeMarkdown(content)]

\* part_001:178-206  the balance checks of validateMarkdownSyntax(content):
\* the set of the checks that fail
validateMarkdownSyntax(content) ==
    (IF Odd(countMatches(content, "star", 2)) THEN {"bold"} ELSE {})
    \cup (IF Odd(countLoneStars(removeBoldFrom(content, 1))) THEN {"italic"} ELSE {})
    \cup (IF Odd(countMatches(content, "tick", 3)) THEN {"codeBlock"} ELSE {})
    \cup (IF Odd(Cardinality({i \in 1..Len(content) : content[i].c = "tick"})) THEN {"inlineCode"} ELSE {})

\* the content strings of the model: every string of at most MaxContentPieces
\* characters over a plain character and the markers, and long strings that
\* end in a few markers
RECURSIVE fromChars(_)
fromChars(chars) == IF chars = <<>> THEN <<>> ELSE concat(<<Head(chars)>>, fromChars(Tail(chars)))

\* formatMessage(inputData) is called
FormatMarkdownMessage ==
    /\ ~mdFormatted.run
    /\ mdFormatted' = formatMarkdownMessage(mdInput)
    /\ UNCHANGED <<mdInput, mdAgain, mdErrors>>
    /\ UNCHANGED <<loggerVars, pureVars, retryVars, glVars, config, hasHelpers, tcState, clientVars, nodeVars>>

\* part_007:22-26  processMessage: validateMessage on the formatted message
ValidateMarkdownMessage ==
    /\ mdFormatted.run
    /\ ~mdFormatted.threw
    /\ ~mdErrors.run
    /\ mdErrors' = [run |-> TRUE, errors |-> validateMarkdownSyntax(mdFormatted.content)]
    /\ UNCHANGED <<mdInput, mdFormatted, mdAgain>>
    /\ UNCHANGED <<loggerVars, pureVars, retryVars, glVars, config, hasHelpers, tcState, clientVars, nodeVars>>

\* the sanitizer is applied to the content it produced
SanitizeAgain ==
    /\ mdFormatted.run
    /\ ~mdFormatted.threw
    /\ ~mdAgain.run
    /\ mdAgain' = [run |-> TRUE, content |-> sanitizeMarkdown(mdFormatted.content)]
    /\ UNCHANGED <<mdInput, mdFormatted, mdErrors>>
    /\ UNCHANGED <<loggerVars, pureVars, retryVars, glVars, config, hasHelpers, tcState, clientVars, nodeVars>>

(***************************************************************************)
(* GitLabApi.execute (nodes/GitLabApi/GitLabDescription.ts)                *)
(***************************************************************************)
\* String.prototype.trim
RECURSIVE trim(_)
trim(id) ==
    IF id = <<>> THEN <<>>
    ELSE IF Head(id) = " " THEN trim(Tail(id))
    ELSE IF id[Len(id)] = " " THEN trim(SubSeq(id, 1, Len(id) - 1))
    ELSE id

\* GitLabDescription.ts:293  /^\d+$/.test(id)
isNumericId(id) == id # <<>> /\ \A i \in 1..Len(id) : id[i] = "1"

\* GitLabDescription.ts:294  /^[a-zA-Z0-9_.-]+(?:\/[a-zA-Z0-9_.-]+)+$/.test(id)
isPathFormat(id) ==
    /\ id # <<>>
    /\ \A i \in 1..Len(id) : id[i] \in {"1", "g", "/"}
    /\ \E i \in 1..Len(id) : id[i] = "/"
    /\ id[1] # "/" /\ id[Len(id)] # "/"
    /\ \A i \in 1..(Len(id) - 1) : ~(id[i] = "/" /\ id[i + 1] = "/")

\* encodeURIComponent: the slash and the blank are escaped, '!' is kept
encodeURIComponent(id) ==
    [i \in 1..Len(id) |-> CASE id[i] = "/" -> "%2F" [] id[i] = " " -> "%20" [] OTHER -> id[i]]

\* GitLabDescription.ts:284, 369, 450  if (!projectId || projectId.trim() === '') throw
projectIdIsEmpty(id) == id = <<>> \/ trim(id) = <<>>

GitLabOperations ==
    { <<"project", "get">>, <<"project", "getAll">>, <<"mergeRequest", "getAll">>, <<"mergeRequest", "get">> }

\* GitLabDescription.ts:281-303, 362-376, 446-457  the checks of projectId
\* before the request: TRUE when the operation throws
projectIdRejected(resource, operation, id) ==
    IF resource = "project" /\ operation = "get"
    THEN projectIdIsEmpty(id) \/ (~isNumericId(trim(id)) /\ ~isPathFormat(trim(id)))
    ELSE projectIdIsEmpty(id)

NoRequest == [sent |-> FALSE, url |-> <<>>]

\* GitLabDescription.ts:511-520  the catch block of the loop: an error record
\* and the next item under continueOnFail, else the error is thrown
gitLabCatch ==
    IF glContinue
    THEN /\ glReturnData' = Append(glReturnData, [item |-> glIndex, error |-> TRUE])
         /\ glIndex' = glIndex + 1
         /\ glPc' = "loop"
    ELSE /\ glPc' = "raised"
         /\ UNCHANGED <<glReturnData, glIndex>>

\* GitLabDescription.ts:277-322, 360-407, 445-474  the body of the loop for
\* item i up to the await of the HTTP helper: the checks of projectId, the
\* credentials, and the request
GitLabItem ==
    /\ glPc = "loop"
    /\ glIndex < glItemCount
    \* a project identifier is a sequence of characters: "1" a digit, "g" a
    \* letter, "/" the slash, " " a blank, "!" a character outside the patterns
    /\ \E id \in UNION {[1..n -> {"1", "g", "/", " ", "!"}] : n \in 0..MaxIdLength},
          credentialsOk \in BOOLEAN :
          /\ glProjectId' = id
          \* no branch of execute handles the resource project with getAll
          /\ IF <<glResource, glOperation>> = <<"project", "getAll">>
             THEN /\ glRequest' = NoRequest
                  /\ glIndex' = glIndex + 1
                  /\ UNCHANGED <<glPc, glReturnData>>
             ELSE IF projectIdRejected(glResource, glOperation, id) \/ ~credentialsOk
                  THEN glRequest' = NoRequest /\ gitLabCatch
                  ELSE /\ glRequest' = [sent |-> TRUE, url |-> encodeURIComponent(trim(id))]
                       /\ glPc' = "await"
                       /\ UNCHANGED <<glReturnData, glIndex>>
    /\ UNCHANGED <<glResource, glOperation, glContinue, glItemCount>>
    /\ UNCHANGED <<loggerVars, pureVars, retryVars, mdVars, config, hasHelpers, tcState, clientVars, nodeVars>>

\* GitLabDescription.ts:312-330, 397-417, 464-481  the HTTP helper resolves:
\* the records of the response are pushed
GitLabRequestResolves ==
    /\ glPc = "await"
    /\ \E records \in (IF glOperation = "get" /\ glResource = "mergeRequest" THEN {1} ELSE {0, 1, 2}) :
          glReturnData' = glReturnData \o [k \in 1..records |-> [item |-> glIndex, error |-> FALSE]]
    /\ glIndex' = glIndex + 1
    /\ glPc' = "loop"
    /\ UNCHANGED <<glResource, glOperation, glContinue, glItemCount, glProjectId, glRequest>>
    /\ UNCHANGED <<loggerVars, pureVars, retryVars, mdVars, config, hasHelpers, tcState, clientVars, nodeVars>>

\* GitLabDescription.ts:331-357, 418-443, 482-507  the HTTP helper rejects: a
\* NodeOperationError is thrown to the catch block of the loop
GitLabRequestRejects ==
    /\ glPc = "await"
    /\ gitLabCatch
    /\ UNCHANGED <<glResource, glOperation, glContinue, glItemCount, glProjectId, glRequest>>
    /\ UNCHANGED <<loggerVars, pureVars, retryVars, mdVars, config, hasHelpers, tcState, clientVars, nodeVars>>

\* GitLabDescription.ts:523  return [returnData]
GitLabReturns ==
    /\ glPc = "loop"
    /\ glIndex = glItemCount
    /\ glPc' = "returned"
    /\ UNCHANGED <<glResource, glOperation, glContinue, glItemCount, glIndex, glProjectId, glRequest, glReturnData>>
    /\ UNCHANGED <<loggerVars, pureVars, retryVars, mdVars, config, hasHelpers, tcState, clientVars, nodeVars>>

(***************************************************************************)
(* ErrorHandler.withRetry and the error statistics (ErrorHandler.ts)       *)
(***************************************************************************)
\* the callers that run withRetry at the same time
Callers == 1..NumCallers

\* ErrorHandler.ts:326-383  getErrorCategory(error)
getErrorCategory(error) ==
    CASE error.code \in {93000, 40001, 40013, 40014, 42001, 42002} -> "auth"
      [] error.code \in {40003, 40035, 41001, 41002, 41003, 300001, 300006, 300009} -> "parameter"
      [] error.code \in {44001, 44002, 44003, 44004, 45002, 45003, 45004} -> "content"
      [] error.code \in {40004, 40005, 40006, 40007, 45001, 300010, 300011, 300012} -> "file"
      [] error.code = 45009 -> "rateLimit"
      [] error.code \in {48001, 50001, 50002} -> "permission"
      [] error.code \in {-2, -3, -4, -5} -> "network"
      [] error.code \in {-1, 61450} -> "system"
      [] OTHER -> "unknown"

\* an object of counters: a function from the keys it has to their counts
\* counts[key] = (counts[key] || 0) + 1
Increment(counts, key) ==
    [k \in DOMAIN counts \cup {key} |->
        IF k = key THEN (IF key \in DOMAIN counts THEN counts[key] ELSE 0) + 1 ELSE counts[k]]

\* ErrorHandler.ts:31-38, 538-547  the statistics with every counter at zero
ZeroStats ==
    [totalErrors |-> 0, errorsByCode |-> [k \in {} |-> 0], errorsByCategory |-> [k \in {} |-> 0],
     retryAttempts |-> 0, successfulRetries |-> 0]

\* recordError without its count by code
recordErrorSkipsCode(stats, error, isRetry) ==
    [stats EXCEPT !.totalErrors = @ + 1,
                  !.errorsByCategory = Increment(@, getErrorCategory(error)),
                  !.retryAttempts = IF isRetry THEN @ + 1 ELSE @]

\* ErrorHandler.ts:504-519  recordError(error, isRetry)
recordError(stats, error, isRetry) ==
    [stats EXCEPT !.totalErrors = @ + 1,
                  !.errorsByCode = Increment(@, error.code),
                  !.errorsByCategory = Increment(@, getErrorCategory(error)),
                  !.retryAttempts = IF isRetry THEN @ + 1 ELSE @]

\* a caller: pc is "idle", "op" (awaiting operation()), "sleep" (awaiting the
\* retry delay) or "done"; errors are the classified errors of the failed
\* invocations of the current call, in order
RetryCall(pc, att, maxRetries, lastErr, invocations, errors, outcome) ==
    [pc |-> pc, attempt |-> att, maxRetries |-> maxRetries, lastError |-> lastErr,
     invocations |-> invocations, errors |-> errors, outcome |-> outcome]

\* the catch block breaking only on the attempt count
withRetryBreaksIgnoresError(att, maxRetries, error) == att > maxRetries

\* ErrorHandler.ts:628-635  the two breaks of the catch block
withRetryBreaks(att, maxRetries, error) == att > maxRetries \/ ~isRetryableError(error)

\* ErrorHandler.ts:600-613  withRetry(operation, config) up to its first await:
\* attempt = 1 and operation() is called
WithRetryCall(p) ==
    /\ retryCalls[p].pc \in {"idle", "done"}
    /\ callsStarted < MaxRetryCalls
    /\ \E maxRetries \in {0, 1, 2} :
          retryCalls' = [retryCalls EXCEPT ![p] = RetryCall("op", 1, maxRetries, NoError, 1, <<>>, NoResult)]
    /\ callsStarted' = callsStarted + 1
    /\ UNCHANGED <<errorStats, recorded, statsOp>>
    /\ UNCHANGED <<loggerVars, pureVars, mdVars, glVars, config, hasHelpers, tcState, clientVars, nodeVars>>

\* ErrorHandler.ts:609-618  operation() resolves: withRetry returns its result
OperationResolves(p) ==
    LET c == retryCalls[p]
    IN  /\ c.pc = "op"
        \* ErrorHandler.ts:524-526  recordSuccessfulRetry()
        /\ errorStats' = IF c.attempt > 1 THEN [errorStats EXCEPT !.successfulRetries = @ + 1] ELSE errorStats
        /\ statsOp' = IF c.attempt > 1 THEN "recordSuccessfulRetry" ELSE statsOp
        /\ retryCalls' = [retryCalls EXCEPT ![p].pc = "done", ![p].outcome = Returned(ApiBody(0))]
        /\ UNCHANGED <<callsStarted, recorded>>
        /\ UNCHANGED <<loggerVars, pureVars, mdVars, glVars, config, hasHelpers, tcState, clientVars, nodeVars>>

\* ErrorHandler.ts:619-646  operation() rejects: the catch block, up to the
\* throw after the loop or to the await of the delay
OperationRejects(p) ==
    LET c == retryCalls[p]
    IN  /\ c.pc = "op"
        \* the operation rejects with a WeworkApiError of a terminal code, or
        \* with an Error that is not a WeworkApiError and classifies as retryable
        /\ \E e \in { ApiErr(93000, "errmsg", {}), PlainErr("Error", "ext", {"timeout"}) } :
              LET err == createGenericError(e)
              IN  /\ errorStats' = recordError(errorStats, err, c.attempt > 1)
                  /\ retryCalls' =
                       [retryCalls EXCEPT
                          ![p].lastError = err,
                          ![p].errors = Append(@, err),
                          ![p].pc = IF withRetryBreaks(c.attempt, c.maxRetries, err) THEN "done" ELSE "sleep",
                          ![p].outcome = IF withRetryBreaks(c.attempt, c.maxRetries, err)
                                         THEN Raised(err) ELSE @]
        /\ recorded' = recorded + 1
        /\ statsOp' = "recordError"
        /\ UNCHANGED callsStarted
        /\ UNCHANGED <<loggerVars, pureVars, mdVars, glVars, config, hasHelpers, tcState, clientVars, nodeVars>>

\* ErrorHandler.ts:608, 644-648  the delay ends: attempt++, then the loop test,
\* and operation() is called again or the last error is thrown
RetryDelayEnds(p) ==
    LET c == retryCalls[p]
    IN  /\ c.pc = "sleep"
        /\ retryCalls' =
             IF c.attempt + 1 <= c.maxRetries + 1
             THEN [retryCalls EXCEPT ![p].attempt = @ + 1, ![p].pc = "op", ![p].invocations = @ + 1]
             ELSE [retryCalls EXCEPT ![p].attempt = @ + 1, ![p].pc = "done", ![p].outcome = Raised(c.lastError)]
        /\ UNCHANGED <<errorStats, callsStarted, recorded, statsOp>>
        /\ UNCHANGED <<loggerVars, pureVars, mdVars, glVars, config, hasHelpers, tcState, clientVars, nodeVars>>

\* ErrorHandler.ts:538-547  resetErrorStats()
ResetErrorStats ==
    /\ statsOp # "resetErrorStats"
    /\ errorStats' = ZeroStats
    /\ recorded' = 0
    /\ statsOp' = "resetErrorStats"
    /\ UNCHANGED <<retryCalls, callsStarted>>
    /\ UNCHANGED <<loggerVars, pureVars, mdVars, glVars, config, hasHelpers, tcState, clientVars, nodeVars>>

(***************************************************************************)
(* WeworkApiClient.sendMessage                                             *)
(***************************************************************************)
\* ApiClient.ts:39-42  entry of sendMessage: lastError = null, attempt = 0
sendMessageBegin(url) ==
    /\ cUrl' = url
    /\ cPc' = "try"
    /\ attempt' = 0
    /\ lastError' = NoError
    /\ delay' = 0
    /\ cResult' = NoResult
    /\ httpCalls' = 0
    /\ sleeps' = <<>>
    /\ history' = <<>>
    /\ lastOutcome' = NoOutcome
    /\ UNCHANGED httpRows

\* the locals of a finished sendMessage are gone once its caller has its result
sendMessageEnd ==
    /\ cUrl' = UrlValid
    /\ cPc' = "idle"
    /\ attempt' = 0
    /\ lastError' = NoError
    /\ delay' = 0
    /\ cResult' = NoResult
    /\ httpCalls' = 0
    /\ sleeps' = <<>>
    /\ history' = <<>>
    /\ lastOutcome' = NoOutcome
    /\ UNCHANGED httpRows

\* the exhaustion test one attempt early
retriesExhaustedEarly(att, cfg) == att >= cfg.maxRetries

\* ApiClient.ts:75  if (attempt > this.config.maxRetries) break
retriesExhausted(att, cfg) == att > cfg.maxRetries

\* the catch block without its test of the attempt count
breaksLoopIgnoresAttempt(att, cfg, error) == ~shouldRetry(error)

\* ApiClient.ts:75-83  the two breaks of the catch block
breaksLoop(att, cfg, error) == retriesExhausted(att, cfg) \/ ~shouldRetry(error)

\* the loop without its attempt++
nextAttemptStuck(att) == att

\* ApiClient.ts:66  attempt++
nextAttempt(att) == att + 1

\* ApiClient.ts:42-114  one iteration of the while loop, from the loop head to
\* the return, to the throw after the loop, or to the await of sleep
sendMessageIteration(h) ==
    LET r == makeHttpRequest(hasHelpers, cUrl, h)
        att == nextAttempt(attempt)
    IN  /\ history' = Append(history,
                              [kind |-> OutcomeKind(hasHelpers, cUrl, h),
                               allow |-> IF r.ok THEN FALSE
                                         ELSE isRetryableError(createGenericError(r.error))])
        /\ httpCalls' = httpCalls + (IF r.called THEN 1 ELSE 0)
        /\ lastOutcome' = IF r.called THEN h ELSE NoOutcome
        /\ httpRows' = IF r.called /\ nPc # "off"
                       THEN httpRows \cup {sendCalls[Len(sendCalls)]}
                       ELSE httpRows
        /\ UNCHANGED <<cUrl, sleeps>>
        /\ IF r.ok
           THEN /\ cResult' = Returned(r.response)
                /\ cPc' = "done"
                /\ UNCHANGED <<attempt, lastError, delay>>
           ELSE /\ lastError' = r.error
                /\ attempt' = att
                /\ IF breaksLoop(att, config, r.error)
                   THEN /\ cResult' = Raised(createGenericError(r.error))
                        /\ cPc' = "done"
                        /\ UNCHANGED delay
                   \* ApiClient.ts:86  retryDelay * Math.pow(retryBackoffFactor, attempt - 1)
                   ELSE /\ delay' = config.retryDelay * Pow(config.retryBackoffFactor, att - 1)
                        /\ cPc' = "sleep"
                        /\ UNCHANGED cResult

\* an attempt in which makeHttpRequest throws before calling the helper
\* (ApiClient.ts:157-163)
AttemptWithoutRequest ==
    /\ cPc = "try"
    /\ ~hasHelpers \/ ~isValidWebhookUrl(cUrl)
    /\ sendMessageIteration(NoOutcome)
    /\ UNCHANGED <<loggerVars, pureVars, extraVars, config, hasHelpers, tcState, nodeVars>>

\* an attempt in which helpers.httpRequest is called and resolves or rejects
AttemptHttp ==
    /\ cPc = "try"
    /\ hasHelpers /\ isValidWebhookUrl(cUrl)
    /\ \E h \in HelperResults : sendMessageIteration(h)
    /\ UNCHANGED <<loggerVars, pureVars, extraVars, config, hasHelpers, tcState, nodeVars>>

\* ApiClient.ts:91, 354-356  await this.sleep(delay) completes; the loop head
\* is evaluated again and, when it fails, the error after the loop is thrown
BackoffSleep ==
    /\ cPc = "sleep"
    /\ sleeps' = Append(sleeps, delay)
    \* ApiClient.ts:42  while (attempt <= this.config.maxRetries)
    /\ IF attempt <= config.maxRetries
       THEN cPc' = "try" /\ UNCHANGED cResult
       ELSE cPc' = "done" /\ cResult' = Raised(createGenericError(lastError))
    /\ UNCHANGED <<cUrl, attempt, lastError, delay, httpCalls, history, lastOutcome, httpRows>>
    /\ UNCHANGED <<loggerVars, pureVars, extraVars, config, hasHelpers, tcState, nodeVars>>

\* a caller invokes client.sendMessage(url, message) directly
CallSendMessage ==
    /\ nPc = "off"
    /\ cPc \in {"idle", "done"}
    /\ tcState # "running"
    /\ \E url \in Urls : sendMessageBegin(url)
    /\ tcState' = "off"
    /\ UNCHANGED <<loggerVars, pureVars, extraVars, config, hasHelpers, nodeVars>>

\* the catch block of testConnection throwing the error on
testConnectionRethrows(res) ==
    IF res.kind = "returned"
    THEN IF res.response.errcode = 0 THEN "true" ELSE "false"
    ELSE "raised"

\* ApiClient.ts:132-150  what testConnection makes of its sendMessage call:
\* response.errcode === 0 when it returned, false when it threw
testConnectionResult(res) ==
    IF res.kind = "returned"
    THEN IF res.response.errcode = 0 THEN "true" ELSE "false"
    ELSE "false"

\* ApiClient.ts:120-132  testConnection(webhookUrl) awaits sendMessage with its
\* fixed text message
CallTestConnection ==
    /\ nPc = "off"
    /\ cPc \in {"idle", "done"}
    /\ tcState # "running"
    /\ \E url \in Urls : sendMessageBegin(url)
    /\ tcState' = "running"
    /\ UNCHANGED <<loggerVars, pureVars, extraVars, config, hasHelpers, nodeVars>>

\* ApiClient.ts:132-150  the awaited sendMessage returned or threw
TestConnectionCompletes ==
    /\ tcState = "running"
    /\ cPc = "done"
    /\ tcState' = testConnectionResult(cResult)
    /\ UNCHANGED <<loggerVars, pureVars, extraVars, config, hasHelpers, clientVars, nodeVars>>

\* The state before any call: no send call is in progress, and each
\* component that is not in `on` is not running.  A specification names in
\* `on` the components whose parameters its initial condition draws.
Idle(on) ==
    /\ IF "client" \in on THEN TRUE ELSE config = NodeConfig /\ hasHelpers = TRUE
    /\ tcState = "off"
    /\ cUrl = UrlValid
    /\ cPc = "idle"
    /\ attempt = 0
    /\ lastError = NoError
    /\ delay = 0
    /\ cResult = NoResult
    /\ httpCalls = 0
    /\ sleeps = <<>>
    /\ history = <<>>
    /\ lastOutcome = NoOutcome
    /\ httpRows = {}
    /\ IF "node" \in on
       THEN TRUE
       ELSE webhookUrl = UrlValid /\ continueOnFail = FALSE /\ rowCount = 0 /\ nPc = "off"
    /\ itemIndex = 0
    /\ returnData = <<>>
    /\ rowFailed = <<>>
    /\ sendCalls = <<>>
    /\ rowStage = <<>>
    /\ svcLast = SvcEntry(OutputRecord(-1, FALSE, 0, "none"), FALSE, FALSE, NoError)
    /\ svcReturns = 0
    /\ IF "logger" \in on
       THEN TRUE
       ELSE loggers = [l \in LoggerNames |-> LoggerState(FALSE, INFO, 0, FALSE, FALSE, FALSE, ParentBuffer)]
    /\ heap = [b \in {ParentBuffer, childBuffer} |-> <<>>]
    /\ accepted = [b \in {ParentBuffer, childBuffer} |-> <<>>]
    /\ consoleLines = 0
    /\ opCount = 0
    /\ lastOp = [op |-> "none", logger |-> "parent", level |-> DEBUG]
    /\ IF "isRetryableError" \in on THEN TRUE ELSE ehError = NoError
    /\ ehRetryable = "unset"
    /\ IF "formatMessage" \in on THEN TRUE ELSE txInput = NodeInputData(Str(0, TRUE, ""), <<>>, <<>>)
    /\ txOutput = NoMessage
    /\ IF "processMessage" \in on THEN TRUE ELSE mdInput = <<>>
    /\ mdFormatted = [run |-> FALSE, threw |-> FALSE, content |-> <<>>]
    /\ mdAgain = [run |-> FALSE, content |-> <<>>]
    /\ mdErrors = [run |-> FALSE, errors |-> {}]
    /\ IF "gitLab" \in on
       THEN TRUE
       ELSE /\ glResource = "project" /\ glOperation = "get" /\ glContinue = FALSE
            /\ glItemCount = 0 /\ glPc = "off"
    /\ glIndex = 0
    /\ glProjectId = <<>>
    /\ glRequest = NoRequest
    /\ glReturnData = <<>>
    /\ errorStats = ZeroStats
    /\ retryCalls = [p \in Callers |-> RetryCall("idle", 0, 0, NoError, 0, <<>>, NoResult)]
    /\ callsStarted = 0
    /\ recorded = 0
    /\ statsOp = "none"

\* ApiClient.ts:16-27  a client constructed by a caller and used directly:
\* the defaults overridden by the caller's maxRetries and retryDelay (the
\* test's 10 ms, ApiClient.test.ts:119, the default, and a long base delay)
InitClient ==
    /\ Idle({"client"})
    /\ config \in {Config(m, d, DefaultBackoffFactor) : m \in 0..DefaultMaxRetries, d \in {10, DefaultRetryDelay, 20000}}
    /\ hasHelpers \in BOOLEAN

NextClient ==
    \/ CallSendMessage
    \/ CallTestConnection
    \/ AttemptWithoutRequest
    \/ AttemptHttp
    \/ BackoffSleep
    \/ TestConnectionCompletes

SpecClient == InitClient /\ [][NextClient]_vars

(***************************************************************************)
(* WeworkApiService.sendMessage and WeworkBot.execute                      *)
(***************************************************************************)
\* What the row's parameters make of the row before delivery:
\*   unknownKind  the switch's default case throws       (WeworkBot.node.ts:161-166)
\*   formatError  formatMessage throws                   (WeworkBot.node.ts:172)
\*   invalid      validation.isValid is false            (WeworkBot.node.ts:178-184)
\*   svcInvalid   the service's validateMessage throws   (part_003:46)
\*   ok           the message reaches the client
RowClasses == {"unknownKind", "formatError", "invalid", "svcInvalid", "ok"}

\* the observation of a row's class
StageOf(cls) == IF cls \in {"unknownKind", "formatError", "invalid"} THEN "rejected" ELSE "accepted"

\* the row is handed to the service although its validation failed
rowThrowsBeforeSendIgnoresValidation(cls) == cls \in {"unknownKind", "formatError"}

\* WeworkBot.node.ts:161-184  the row throws before apiService.sendMessage is
\* reached: unknown kind, formatter error, validation.isValid false
rowThrowsBeforeSend(cls) == cls \in {"unknownKind", "formatError", "invalid"}

\* part_003:294-315  validateWebhookUrl(webhookUrl): TRUE when it throws
validateWebhookUrlThrows(url) ==
    IF url.empty THEN TRUE
    ELSE IF ~url.parse THEN TRUE
    ELSE IF ~url.https THEN TRUE
    ELSE IF ~includes(url.host, ApiHost) THEN TRUE
    ELSE FALSE

\* the error result with the default code whatever the error is
createErrorResultDefaultCode(row, error) == OutputRecord(row, FALSE, -1, "msgtype")

\* part_003:338-358  createErrorResult(message, error, startTime)
createErrorResult(row, error) ==
    OutputRecord(row, FALSE, IF error.api THEN error.code ELSE -1, "msgtype")

\* the catch block going on to the next row without a record
rowCatchDropsRow ==
    IF continueOnFail
    THEN /\ itemIndex' = itemIndex + 1
         /\ nPc' = "loop"
         /\ UNCHANGED returnData
    ELSE /\ nPc' = "raised"
         /\ UNCHANGED <<returnData, itemIndex>>

\* the catch block rethrowing whatever continueOnFail() says
rowCatchAlwaysThrows ==
    /\ nPc' = "raised"
    /\ UNCHANGED <<returnData, itemIndex>>

\* WeworkBot.node.ts:220-253  the catch block of a row: a failure record when
\* continueOnFail(), else the error is thrown out of execute
rowCatch ==
    IF continueOnFail
    \* WeworkBot.node.ts:231-237  errorResult of the catch block
    THEN /\ returnData' = Append(returnData, OutputRecord(itemIndex, FALSE, -1, "unknown"))
         /\ itemIndex' = itemIndex + 1
         /\ nPc' = "loop"
    ELSE /\ nPc' = "raised"
         /\ UNCHANGED <<returnData, itemIndex>>

\* the row's code without the throw on an unsuccessful result
rowAfterSendNeverThrows(result) ==
    /\ returnData' = Append(returnData, result)
    /\ itemIndex' = itemIndex + 1
    /\ nPc' = "loop"

\* WeworkBot.node.ts:191-218  the row's code after apiService.sendMessage resolved
rowAfterSend(result) ==
    IF ~result.success /\ ~continueOnFail
    THEN rowCatch
    ELSE /\ returnData' = Append(returnData, result)
         /\ itemIndex' = itemIndex + 1
         /\ nPc' = "loop"

\* the send started and not awaited: the loop goes on to the next row
awaitSendSkipped ==
    /\ nPc' = "loop"
    /\ itemIndex' = itemIndex + 1

\* WeworkBot.node.ts:188  await apiService.sendMessage(webhookUrl, message)
awaitSend ==
    /\ nPc' = "await"
    /\ UNCHANGED itemIndex

\* WeworkBot.node.ts:100-184, 220-253  a row whose kind is unknown, whose
\* formatter throws or whose validation fails
RowThrows ==
    /\ nPc = "loop"
    /\ itemIndex < rowCount
    /\ \E cls \in RowClasses :
          /\ rowThrowsBeforeSend(cls)
          /\ rowCatch
          /\ rowStage' = Append(rowStage, StageOf(cls))
    /\ rowFailed' = Append(rowFailed, TRUE)
    /\ UNCHANGED <<loggerVars, pureVars, extraVars, config, hasHelpers, tcState, clientVars, webhookUrl, continueOnFail, rowCount, sendCalls, svcLast, svcReturns>>

\* WeworkBot.node.ts:188 with part_003:44-47, 63-75  the service's own
\* validation throws and sendMessage resolves with an error result
ServiceRejects ==
    /\ nPc = "loop"
    /\ itemIndex < rowCount
    /\ \E cls \in RowClasses :
          /\ ~rowThrowsBeforeSend(cls)
          /\ cls = "svcInvalid" \/ validateWebhookUrlThrows(webhookUrl)
          /\ rowStage' = Append(rowStage, StageOf(cls))
    /\ LET caught == PlainErr("Error", "validation", {})
           result == createErrorResult(itemIndex, caught)
       IN  /\ rowAfterSend(result)
           /\ svcLast' = SvcEntry(result, FALSE, FALSE, caught)
           /\ svcReturns' = svcReturns + 1
    /\ rowFailed' = Append(rowFailed, TRUE)
    /\ UNCHANGED <<loggerVars, pureVars, extraVars, config, hasHelpers, tcState, clientVars, webhookUrl, continueOnFail, rowCount, sendCalls>>

\* WeworkBot.node.ts:188 with part_003:51  the service awaits apiClient.sendMessage
ServiceCallsClient ==
    /\ nPc = "loop"
    /\ itemIndex < rowCount
    /\ \E cls \in RowClasses :
          /\ ~rowThrowsBeforeSend(cls)
          /\ cls # "svcInvalid"
          /\ rowStage' = Append(rowStage, StageOf(cls))
    /\ ~validateWebhookUrlThrows(webhookUrl)
    /\ sendMessageBegin(webhookUrl)
    /\ awaitSend
    /\ sendCalls' = Append(sendCalls, itemIndex)
    /\ UNCHANGED <<loggerVars, pureVars, extraVars, config, hasHelpers, tcState, webhookUrl, continueOnFail, rowCount, returnData, rowFailed, svcLast, svcReturns>>

\* part_003:51-75 and WeworkBot.node.ts:189-218  apiClient.sendMessage returned
\* or threw; the service maps it to a result and the row goes on
SendCompletes ==
    /\ nPc = "await"
    /\ cPc = "done"
    /\ LET result == IF cResult.kind = "returned"
                     \* part_003:320-333  createSuccessResult
                     THEN OutputRecord(itemIndex, TRUE, cResult.response.errcode, "msgtype")
                     ELSE createErrorResult(itemIndex, cResult.error)
           okSeen == \E i \in 1..Len(history) : history[i].kind = "ok"
       IN  /\ rowAfterSend(result)
           /\ rowFailed' = Append(rowFailed, ~result.success)
           /\ svcLast' = SvcEntry(result, Len(history) > 1, okSeen, cResult.error)
           /\ svcReturns' = svcReturns + 1
    /\ sendMessageEnd
    /\ UNCHANGED <<loggerVars, pureVars, extraVars, config, hasHelpers, tcState, webhookUrl, continueOnFail, rowCount, sendCalls, rowStage>>

\* WeworkBot.node.ts:100, 256-284  the loop ends and execute returns [returnData]
ExecuteReturns ==
    /\ nPc = "loop"
    /\ itemIndex >= rowCount
    /\ nPc' = "returned"
    /\ UNCHANGED <<loggerVars, pureVars, extraVars, config, hasHelpers, tcState, clientVars, webhookUrl, continueOnFail, rowCount, itemIndex, returnData, rowFailed, sendCalls, rowStage, svcLast, svcReturns>>

\* WeworkBot.node.ts:57-100  execute up to the loop: the credentials hold
\* some webhook URL (in execute the look-alike host is treated as the API
\* host is), and the input has 0..MaxRows rows
Init ==
    /\ Idle({"client", "node"})
    /\ config = NodeConfig
    /\ hasHelpers \in BOOLEAN
    /\ webhookUrl \in (Urls \ {UrlLookalikeHost})
    /\ continueOnFail \in BOOLEAN
    /\ rowCount \in 0..MaxRows
    /\ nPc = "loop"

Spec ==
    /\ Init
    /\ [][\/ RowThrows
          \/ ServiceRejects
          \/ ServiceCallsClient
          \/ AttemptWithoutRequest
          \/ AttemptHttp
          \/ BackoffSleep
          \/ SendCompletes
          \/ ExecuteReturns]_vars

\* the scheduling of a send call: an HTTP request settles (it has a timeout,
\* ApiClient.ts:181) and a setTimeout fires (ApiClient.ts:354-356)
SpecClientLive ==
    /\ InitClient
    /\ [][NextClient]_vars
    /\ WF_vars(AttemptWithoutRequest)
    /\ WF_vars(AttemptHttp)
    /\ WF_vars(BackoffSleep)

\* Logger.ts:42-53  a logger constructed by a caller with its own config
\* (maxLogEntries 0, 1 or 2) and the default level, which setLogLevel changes
InitLogger ==
    /\ Idle({"logger"})
    /\ \E maxLogEntries \in {0, 1, 2},
          structured \in BOOLEAN, console \in BOOLEAN, mask \in BOOLEAN :
          loggers = [l \in LoggerNames |->
                       IF l = "parent"
                       THEN LoggerState(TRUE, INFO, maxLogEntries, structured, console, mask, ParentBuffer)
                       ELSE LoggerState(FALSE, INFO, 0, FALSE, FALSE, FALSE, ParentBuffer)]

SpecLogger == InitLogger /\ [][LogCall \/ ClearLogEntries \/ SetLogLevel \/ CreateChildLogger]_vars

\* a caller of ErrorHandler.isRetryableError with an error of some code: the
\* synthetic codes, the codes of the errorMessages table from 40001 on, and
\* the codes the properties below name
SpecErrorHandler ==
    /\ Idle({"isRetryableError"})
    /\ \E code \in (-5..0) \cup (40001..40040) \cup (42001..42003) \cup (44001..44004)
                      \cup {45009, 93000, 99999} :
          ehError = ApiErr(code, "errmsg", {})
    /\ [][IsRetryableErrorCall]_vars

\* a caller of TextMessageHandler.formatMessage with some input: a content
\* of a length around the limit or far from it, and two mention lists
SpecTextFormat ==
    /\ Idle({"formatMessage"})
    /\ txInput \in { NodeInputData(Str(len, blank, ""), users, mobiles) :
                       len \in {0, 1, 4085, 4086, 4087, 4095, 4096, 4097, 4098, 4104, 4105, 5000, 10000},
                       blank \in BOOLEAN, users \in MentionLists, mobiles \in MentionLists }
    /\ [][FormatTextMessage]_vars

\* a caller of MarkdownMessageHandler.processMessage with some content: every
\* string of at most MaxContentPieces characters over a plain character and
\* the markers, and long strings that end in a few markers
SpecMarkdown ==
    /\ Idle({"processMessage"})
    /\ mdInput \in
          {fromChars(chars) :
              chars \in UNION {[1..n -> {Plain(1)} \cup {Marker(ch) : ch \in {"star", "tick", "lt", "gt"}}] :
                                 n \in 0..MaxContentPieces}}
          \cup {concat(<<Plain(n)>>, fromChars(chars)) :
                  n \in {4080, 4081, 4090, 4093, 4094, 4095, 4096, 4097, 5000},
                  chars \in UNION {[1..k -> {Plain(1), Marker("star"), Marker("tick")}] : k \in 0..2}}
    /\ [][FormatMarkdownMessage \/ ValidateMarkdownMessage \/ SanitizeAgain]_vars

\* GitLabDescription.ts:270-277  GitLabApi.execute is called with some
\* parameters and 1..MaxRows items
InitGitLab ==
    /\ Idle({"gitLab"})
    /\ \E op \in GitLabOperations : glResource = op[1] /\ glOperation = op[2]
    /\ glContinue \in BOOLEAN
    /\ glItemCount \in 1..MaxRows
    /\ glPc = "loop"

SpecGitLab ==
    InitGitLab /\ [][GitLabItem \/ GitLabRequestResolves \/ GitLabRequestRejects \/ GitLabReturns]_vars

\* callers of ErrorHandler.withRetry and of resetErrorStats
SpecRetry ==
    /\ Idle({})
    /\ [][\/ \E p \in Callers : WithRetryCall(p)
          \/ \E p \in Callers : OperationResolves(p)
          \/ \E p \in Callers : OperationRejects(p)
          \/ \E p \in Callers : RetryDelayEnds(p)
          \/ ResetErrorStats]_vars

(***************************************************************************)
(* Properties of the delivery client                                       *)
(***************************************************************************)
Running == cPc \in {"try", "sleep"}
Done == cPc = "done"
\* the attempts that called the helper and failed with an error whose
\* classified code is in the retryable allow-list
RetryableFailure(o) == o.kind \in {"api", "transport", "other"} /\ o.allow
\* the error the latest attempt's makeHttpRequest threw
LastAttemptError == makeHttpRequest(hasHelpers, cUrl, lastOutcome).error

\* C1: a send call makes at most maxRetries + 1 HTTP attempts (every loop
\* iteration that does not end the call increments attempt, which stays at
\* most maxRetries while the call runs), and a running call always ends
C1_SendTerminates ==
    /\ [](/\ httpCalls <= config.maxRetries + 1
          /\ Len(history) <= config.maxRetries + 1
          /\ Running => Len(history) = attempt /\ attempt <= config.maxRetries)
    /\ (Running ~> Done)

C1_Witness ==
    /\ Done
    /\ config.maxRetries = DefaultMaxRetries
    /\ httpCalls = config.maxRetries + 1
    /\ cResult.kind = "raised"

\* C2: with maxRetries = 3, after two HTTP attempts that failed with a
\* retryable error the call makes a third attempt, and when that one answers
\* errcode 0 the call has made exactly 3 HTTP calls and returns its response
C2_FailTwiceThenSucceed ==
    (/\ config.maxRetries = 3
     /\ Len(history) >= 2
     /\ RetryableFailure(history[1])
     /\ RetryableFailure(history[2]))
    => /\ Len(history) = 2 => Running
       /\ (Len(history) >= 3 /\ history[3].kind = "ok")
            => /\ Done
               /\ Len(history) = 3
               /\ httpCalls = 3
               /\ lastOutcome.body.errcode = 0
               /\ cResult = Returned(lastOutcome.body)

C2_Witness ==
    /\ config.maxRetries = 3
    /\ Len(history) = 3
    /\ RetryableFailure(history[1])
    /\ RetryableFailure(history[2])
    /\ history[3].kind = "ok"
    /\ cResult.kind = "returned"

C4_NonRetryableApiErrorStops ==
    \A i \in 1..Len(history) :
        (history[i].kind = "api" /\ ~history[i].allow)
        => /\ i = Len(history)
           /\ Done
           /\ cResult.kind = "raised"
           /\ cResult.error = createApiErrorFromResponse(lastOutcome.body)

\* C5: when every attempt of a send call failed with a transport error, the
\* call ends only after maxRetries + 1 attempts, each an HTTP call, and raises
\* the classified form of the last attempt's error
AllTransport == Len(history) >= 1 /\ \A i \in 1..Len(history) : history[i].kind = "transport"
BadSchemeOrHost(url) == ~url.https \/ ~includes(url.host, ApiHost)
C6_InvalidUrlFailsFast ==
    (cPc # "idle" /\ BadSchemeOrHost(cUrl))
    => /\ httpCalls = 0
       /\ sleeps = <<>>
       /\ cPc # "sleep"
       /\ Done => /\ attempt = 1
                  /\ cResult.kind = "raised"
                  /\ cResult.error.code = -4
                  /\ cResult.error.text = "invalidWebhookUrl"

\* C7: the k-th sleep of a send call lasts min(maxDelay, base * factor^(k-1))
\* up to the 10% jitter
WithinJitter(d, base) ==
    /\ (d - base) * 100 <= base * JitterPercent
    /\ (base - d) * 100 <= base * JitterPercent
C7_SleepIsCappedRetryDelay ==
    hasHelpers =>
    \A k \in 1..Len(sleeps) :
        WithinJitter(sleeps[k],
                     calculateRetryDelayBase(k, config.retryDelay, config.retryBackoffFactor, DefaultMaxDelay))

\* C14: testConnection never raises, and it ends with true exactly when its
\* send call returned a response with errcode 0: a send call that raised,
\* for an invalid URL or after its retries were used up, gives false
C14_TestConnectionNeverRaises ==
    /\ tcState # "raised"
    /\ tcState \in {"true", "false"}
         => /\ Done
            /\ tcState = "true" <=> (cResult.kind = "returned" /\ cResult.response.errcode = 0)
            /\ cResult.kind = "raised" => tcState = "false"

C14_Witness ==
    /\ tcState = "false"
    /\ hasHelpers
    /\ config.maxRetries = 3
    /\ httpCalls = 4
    /\ cResult.kind = "raised"
    /\ cResult.error.code = -2

\* C24: a send call calls helpers.httpRequest only when its URL uses https,
\* has the API host as its hostname and has a path that contains 'webhook' or
\* 'send'
C24_PostOnlyToApiHost ==
    httpCalls > 0 => cUrl.https /\ cUrl.host = ApiHost /\ cUrl.path

\* C28: in a send call every sleep lies between two attempts: at the loop head
\* as many sleeps as attempts were made, during a sleep and after the call one
\* less; a sleep is awaited only after a failed attempt that shouldRetry
\* accepts and that is not the last allowed one, and a call that made
\* maxRetries + 1 attempts has ended
C28_SleepsOnlyBetweenAttempts ==
    /\ cPc = "try" => Len(sleeps) = Len(history)
    /\ cPc = "sleep" => /\ Len(sleeps) = Len(history) - 1
                        /\ history[Len(history)].kind # "ok"
                        /\ shouldRetry(lastError)
                        /\ Len(history) <= config.maxRetries
    /\ Done => Len(sleeps) = Len(history) - 1
    /\ Len(history) = config.maxRetries + 1 => Done

C28_Witness ==
    /\ Done
    /\ config.maxRetries = 3
    /\ Len(history) = 4
    /\ Len(sleeps) = 3
    /\ cResult.kind = "raised"

\* C29: a send call of a client without HTTP helper never sleeps and ends
\* after one attempt by raising
C29_NoHelperFailsAtOnce ==
    (~hasHelpers /\ cPc # "idle")
    => /\ sleeps = <<>>
       /\ cPc # "sleep"
       /\ Len(history) <= 1
       /\ Len(history) = 1 => Done /\ cResult.kind = "raised"

(***************************************************************************)
(* Properties of execute                                                   *)
(***************************************************************************)
\* record i of returnData is the record of input row i (rows count from 0)
RecordsInRowOrder == \A i \in 1..Len(returnData) : returnData[i].row = i - 1

\* C8: when execute returns, returnData has exactly one record per input row,
\* in input order, whatever mix of rows succeeded and failed
C8_OneRecordPerRow ==
    nPc = "returned"
    => /\ Len(returnData) = rowCount
       /\ Len(rowFailed) = rowCount
       /\ RecordsInRowOrder

C8_Witness ==
    /\ nPc = "returned"
    /\ rowCount = 2
    /\ rowFailed = <<TRUE, FALSE>>
    /\ returnData[1].messageType = "unknown"
    /\ returnData[2].success

\* C9: with continueOnFail set, execute never raises; every processed row,
\* failed or not, has exactly one record at its position, a failed row's record
\* has success = false, and the loop is at the next row
C9_ContinueOnFailRecordsFailure ==
    continueOnFail
    => /\ nPc \in {"loop", "await", "returned"}
       /\ Len(rowFailed) = itemIndex
       /\ Len(returnData) = itemIndex
       /\ RecordsInRowOrder
       /\ \A i \in 1..Len(rowFailed) : rowFailed[i] => ~returnData[i].success

C9_Witness ==
    /\ continueOnFail
    /\ rowFailed = <<TRUE, TRUE>>
    /\ returnData[1].messageType = "msgtype"
    /\ returnData[1].errorCode = 93000
    /\ returnData[2].messageType = "unknown"
    /\ nPc = "returned"

\* C10: with continueOnFail unset, a failed row is the last row processed and
\* execute has raised at it: the rows before it all succeeded, the client was
\* called for no later row, and nothing happens after the raise (no record is
\* added, no list is returned, no delivery starts)
C10_FirstFailureRaises ==
    /\ [](~continueOnFail
           => /\ \A i \in 1..Len(rowFailed) :
                    rowFailed[i] => i = Len(rowFailed) /\ nPc = "raised" /\ itemIndex = i - 1
              /\ nPc = "raised"
                   => /\ Len(rowFailed) = itemIndex + 1 /\ rowFailed[itemIndex + 1]
                      /\ Len(returnData) = itemIndex
                      /\ cPc = "idle"
                      /\ \A k \in 1..Len(sendCalls) : sendCalls[k] <= itemIndex)
    /\ [][nPc # "raised"]_vars

C10_Witness ==
    /\ ~continueOnFail
    /\ nPc = "raised"
    /\ rowCount = 2
    /\ itemIndex = 0
    /\ sendCalls = <<0>>

\* C11: rows are delivered one at a time in input order: a client send call is
\* in flight only while execute awaits it for the current row, after every
\* earlier row was finished, and no HTTP call was made for a later row or for an
\* earlier row that is not finished
C11_RowsDeliveredOneAtATime ==
    /\ cPc # "idle"
         => /\ nPc = "await"
            /\ Len(sendCalls) >= 1
            /\ sendCalls[Len(sendCalls)] = itemIndex
            /\ Len(rowFailed) = itemIndex
    /\ \A i, j \in 1..Len(sendCalls) : i < j => sendCalls[i] < sendCalls[j]
    /\ \A r \in httpRows : r <= itemIndex /\ (r < itemIndex => r < Len(rowFailed))

C11_Witness ==
    /\ nPc = "await"
    /\ itemIndex = 1
    /\ httpRows = {0, 1}
    /\ rowFailed = <<TRUE>>
    /\ Len(sleeps) >= 1
    /\ cPc = "try"

\* C12: a row with an unknown kind, a formatter error or a failed validation
\* never reaches the service or the client: no send call and no HTTP call is
\* made for it, and no send call is in flight when it fails
C12_NoDeliveryForRejectedRow ==
    \A i \in 1..Len(rowStage) :
        rowStage[i] = "rejected"
        => /\ (i - 1) \notin httpRows
           /\ \A k \in 1..Len(sendCalls) : sendCalls[k] # i - 1
           /\ svcLast.result.row # i - 1
           /\ i = Len(rowStage) => cPc = "idle" /\ httpCalls = 0

C12_Witness ==
    /\ continueOnFail
    /\ rowStage = <<"rejected", "accepted">>
    /\ httpRows = {1}
    /\ sendCalls = <<1>>
    /\ nPc = "returned"

\* C13: every finished call of the service's sendMessage resolved exactly
\* once, however many attempts its client call made; its result has
\* success = true exactly when an attempt got errcode 0 back, and otherwise it
\* carries the code of the error caught (-1 for an error without a code)
ServiceRows == {i \in 0..(Len(rowStage) - 1) : rowStage[i + 1] = "accepted"}
FinishedServiceRows == {r \in ServiceRows : r < Len(rowFailed)}
EntryIds(entries) == [i \in 1..Len(entries) |-> entries[i].id]
\* the last n elements of a sequence, all of it when it is shorter
LastOf(seq, n) == SubSeq(seq, Len(seq) - (IF n <= Len(seq) THEN n ELSE Len(seq)) + 1, Len(seq))

\* C15: a logger's buffer holds at most maxLogEntries entries, and they are
\* the most recently stored entries, in the order they were logged
C15_BufferKeepsMostRecent ==
    \A l \in LoggerNames :
        loggers[l].exists
        => /\ Len(Buffer(l)) <= loggers[l].maxLogEntries
           /\ EntryIds(Buffer(l)) = LastOf(accepted[loggers[l].buf], loggers[l].maxLogEntries)

\* C16: a log call whose level is below the logger's minimum level leaves
\* every buffer, the console and the configuration as they were
C16_BelowLevelIsNoOp ==
    [][(/\ opCount' # opCount
        /\ lastOp'.op = "log"
        /\ lastOp'.level < loggers[lastOp'.logger].level)
       => UNCHANGED <<heap, consoleLines, loggers>>]_vars

C16_Witness ==
    /\ lastOp.op = "log"
    /\ lastOp.level = INFO
    /\ loggers[lastOp.logger].level = WARN
    /\ loggers[lastOp.logger].enableConsole
    /\ Len(Buffer(lastOp.logger)) = 1
    /\ consoleLines = 1
    /\ opCount = 3

\* C17: once the child logger exists, logging or clearing on the child leaves
\* the parent's buffer as it was, and logging or clearing on the parent leaves
\* the child's buffer as it was
C17_ChildBufferIsIndependent ==
    [][(/\ opCount' # opCount
        /\ lastOp'.op \in {"log", "clear"}
        /\ loggers["child"].exists)
       => /\ lastOp'.logger = "child" => Buffer("parent")' = Buffer("parent")
          /\ lastOp'.logger = "parent" => Buffer("child")' = Buffer("child")]_vars

C17_Witness ==
    /\ loggers["child"].exists
    /\ lastOp.op = "log"
    /\ lastOp.logger = "child"
    /\ Len(Buffer("child")) = 1
    /\ Buffer("child")[1].context = "child"
    /\ Len(Buffer("parent")) = 1
    /\ Buffer("parent")[1].context = "parent"

\* the substrings that make a key sensitive
SensitiveSubstrings ==
    { <<"w","e","b","h","o","o","k">>, <<"k","e","y">>, <<"t","o","k","e","n">>,
      <<"s","e","c","r","e","t">>, <<"p","a","s","s","w","o","r","d">>, <<"a","u","t","h">>,
      <<"c","r","e","d","e","n","t","i","a","l">> }
KeyIsSensitive(key) == \E sub \in SensitiveSubstrings : includes(toLowerCase(key), sub)
FirstAndLastFour(s) == SubSeq(s, 1, 4) \o Stars \o SubSeq(s, Len(s) - 3, Len(s))
\* stored is orig with every field under a sensitive key replaced, at every depth
RECURSIVE Redacted(_, _)
Redacted(orig, stored) ==
    CASE orig.t = "object" ->
           /\ stored.t = "object"
           /\ DOMAIN stored.f = DOMAIN orig.f
           /\ \A key \in DOMAIN orig.f :
                 IF KeyIsSensitive(key)
                 THEN stored.f[key] = IF orig.f[key].t = "string" /\ Len(orig.f[key].s) > 8
                                      THEN StrV(FirstAndLastFour(orig.f[key].s))
                                      ELSE StrV(Stars)
                 ELSE Redacted(orig.f[key], stored.f[key])
      [] orig.t = "array" ->
           /\ stored.t = "array"
           /\ Len(stored.e) = Len(orig.e)
           /\ \A i \in 1..Len(orig.e) : Redacted(orig.e[i], stored.e[i])
      [] OTHER -> stored = orig

\* C18: with masking enabled, the data of every stored entry is the logged
\* data with each field under a sensitive key replaced, at any depth: a string
\* longer than 8 characters by its first 4 and last 4 characters around "****",
\* every other value by "****"
C18_StoredDataIsRedacted ==
    \A l \in LoggerNames :
        (loggers[l].exists /\ loggers[l].maskSensitiveData)
        => \A i \in 1..Len(Buffer(l)) : Redacted(Buffer(l)[i].orig, Buffer(l)[i].data)

C18_Witness ==
    /\ loggers["parent"].maskSensitiveData
    /\ Len(Buffer("parent")) = 1
    /\ Buffer("parent")[1].orig = DataNested
    /\ Buffer("parent")[1].data.f[kToken] = StrV(<<"s","e","c","r","*","*","*","*","t","1","2","3">>)
    /\ Buffer("parent")[1].data.f[<<"a","p","i","K","e","y">>] = StrV(Stars)
    /\ Buffer("parent")[1].data.f[kUser].f[kToken] = StrV(Stars)
    /\ Buffer("parent")[1].data.f[<<"i","t","e","m","s">>].e[1].f[kToken].t = "string"

(***************************************************************************)
(* Properties of the error classifier and of the text formatter            *)
(***************************************************************************)
\* C19: isRetryableError answers true exactly for the codes -1, -2, -3, 42001,
\* 42002 and 45009, and false for every other code, 93000, 40001 and 44001 to
\* 44004 among them
C19_RetryableAllowList ==
    ehRetryable # "unset"
    => /\ ehRetryable = "true" <=> ehError.code \in {-1, -2, -3, 42001, 42002, 45009}
       /\ ehError.code \in ({93000, 40001} \cup (44001..44004)) => ehRetryable = "false"

C19_Witness ==
    /\ ehError.code = 93000
    /\ ehRetryable = "false"

\* C20: for a text input whose content is longer than 4096 characters, the
\* content formatMessage returns is at most 4096 characters long and ends
\* with the truncation suffix
C20_LongTextIsTruncated ==
    (txOutput # NoMessage /\ ~txOutput.threw /\ length(txInput.content) > 4096)
    => /\ length(txOutput.content) <= 4096
       /\ txOutput.content.suffix = TextSuffix

C20_Witness ==
    /\ length(txInput.content) = 4097
    /\ ~txOutput.threw
    /\ length(txOutput.content) = 4086
    /\ txOutput.content.suffix = TextSuffix

\* the index of the first occurrence of v in list
FirstIndex(list, v) == CHOOSE i \in 1..Len(list) : list[i] = v /\ \A j \in 1..(i - 1) : list[j] # v
\* out holds exactly the values of list that satisfy kept, each once, in the
\* order of their first occurrence in list
KeepsOnceInOrder(list, out, kept) ==
    /\ \A i, j \in 1..Len(out) : i # j => out[i] # out[j]
    /\ {out[i] : i \in 1..Len(out)} = {list[i] : i \in 1..Len(list)} \cap kept
    /\ \A i, j \in 1..Len(out) : i < j => FirstIndex(list, out[i]) < FirstIndex(list, out[j])
    /\ \A i \in 1..Len(out) : ~out[i].blank
Formatted == txOutput # NoMessage /\ ~txOutput.threw
NonBlankValues == {m \in MentionValues : ~m.blank}
MobileValues == {m \in MentionValues : ~m.blank /\ m.mobile}

\* C22 as stated: both output lists of the text formatter hold each non-blank
\* input value exactly once, in the order of first occurrence, and no blank
\* entry
C22_EveryNonBlankValueKept ==
    Formatted
    => /\ KeepsOnceInOrder(txInput.mentionedUsers, txOutput.mentioned_list, NonBlankValues)
       /\ KeepsOnceInOrder(txInput.mentionedMobiles, txOutput.mentioned_mobile_list, NonBlankValues)

\* C22: the output user list holds each non-blank input value exactly once,
\* in the order of first occurrence, and no blank entry; the output mobile
\* list holds in the same way each non-blank input value that is a mobile
\* number matching /^1[3-9]\d{9}$/, and drops the others
C22_MentionListsFiltered ==
    Formatted
    => /\ KeepsOnceInOrder(txInput.mentionedUsers, txOutput.mentioned_list, NonBlankValues)
       /\ KeepsOnceInOrder(txInput.mentionedMobiles, txOutput.mentioned_mobile_list, MobileValues)

C22_Witness ==
    /\ Formatted
    /\ txInput.mentionedUsers =
         <<Mention("zhangsan", FALSE, FALSE), Mention("13800138000", FALSE, TRUE), Mention("zhangsan", FALSE, FALSE)>>
    /\ txOutput.mentioned_list = <<Mention("zhangsan", FALSE, FALSE), Mention("13800138000", FALSE, TRUE)>>
    /\ txInput.mentionedMobiles =
         <<Mention(" ", TRUE, FALSE), Mention("zhangsan", FALSE, FALSE), Mention("13800138000", FALSE, TRUE)>>
    /\ txOutput.mentioned_mobile_list = <<Mention("13800138000", FALSE, TRUE)>>

(***************************************************************************)
(* Properties of withRetry and of the error statistics                     *)
(***************************************************************************)
AllRetryable(errors) == \A i \in 1..Len(errors) : isRetryableError(errors[i])

\* C23: a withRetry call invokes the operation at most maxRetries + 1 times;
\* when an invocation resolves the call returns its result after as many
\* invocations as failures plus one; when the first error is not retryable
\* the call has ended after one invocation and raises that error; a call
\* raises only its last error, and when all its errors were retryable only
\* after maxRetries + 1 failed invocations
C23_WithRetryBoundsInvocations ==
    \A p \in Callers :
       LET c == retryCalls[p]
       IN  /\ c.invocations <= c.maxRetries + 1
           /\ Len(c.errors) <= c.invocations
           /\ c.outcome.kind = "returned"
                => c.pc = "done" /\ c.invocations = Len(c.errors) + 1 /\ AllRetryable(c.errors)
           /\ (Len(c.errors) >= 1 /\ ~isRetryableError(c.errors[1]))
                => /\ c.pc = "done"
                   /\ c.invocations = 1
                   /\ c.outcome = Raised(c.errors[1])
           /\ c.outcome.kind = "raised"
                => /\ c.pc = "done"
                   /\ c.invocations = Len(c.errors)
                   /\ c.outcome.error = c.errors[Len(c.errors)]
                   /\ AllRetryable(c.errors) => c.invocations = c.maxRetries + 1
           /\ c.pc = "done" => c.outcome.kind \in {"returned", "raised"}

C23_Witness ==
    \E p \in Callers :
       /\ retryCalls[p].pc = "done"
       /\ retryCalls[p].maxRetries = 2
       /\ retryCalls[p].invocations = 3
       /\ retryCalls[p].outcome.kind = "raised"
       /\ AllRetryable(retryCalls[p].errors)

RECURSIVE SumCounts(_)
SumCounts(counts) ==
    IF DOMAIN counts = {} THEN 0
    ELSE LET k == CHOOSE x \in DOMAIN counts : TRUE
         IN  counts[k] + SumCounts([x \in DOMAIN counts \ {k} |-> counts[x]])

\* C30: whatever the interleaving of the withRetry calls and the resets, the
\* counts by code sum to totalErrors, totalErrors is the number of recordError
\* calls since the latest reset, retryAttempts is at most totalErrors, and
\* right after resetErrorStats every counter is zero
C30_ErrorStatsConsistent ==
    /\ SumCounts(errorStats.errorsByCode) = errorStats.totalErrors
    /\ errorStats.totalErrors = recorded
    /\ errorStats.retryAttempts <= errorStats.totalErrors
    /\ statsOp = "resetErrorStats"
         => /\ errorStats.totalErrors = 0
            /\ errorStats.retryAttempts = 0
            /\ errorStats.successfulRetries = 0
            /\ SumCounts(errorStats.errorsByCode) = 0
            /\ SumCounts(errorStats.errorsByCategory) = 0

C30_Witness ==
    /\ retryCalls[1].pc = "sleep"
    /\ retryCalls[1].attempt = 2
    /\ retryCalls[2].pc = "done"
    /\ retryCalls[2].invocations = 2
    /\ retryCalls[2].outcome.kind = "raised"
    /\ errorStats.totalErrors = 4
    /\ errorStats.retryAttempts = 2
    /\ errorStats.errorsByCode[-2] = 3
    /\ errorStats.errorsByCode[93000] = 1

(***************************************************************************)
(* Properties of the Markdown formatter                                    *)
(***************************************************************************)
\* C21: the sanitizer applied to content it produced returns that content
C21_SanitizerIsIdempotent ==
    mdAgain.run => mdAgain.content = mdFormatted.content

\* C25: the content formatMessage returns is at most 4096 characters long
C25_FormattedMarkdownWithinLimit ==
    (mdFormatted.run /\ ~mdFormatted.threw) => mdLength(mdFormatted.content) <= 4096

\* C27: the content formatMessage returns fails none of the balance checks
\* of validateMarkdownSyntax
C27_FormattedMarkdownIsBalanced ==
    mdErrors.run => mdErrors.errors = {}

(***************************************************************************)
(* Properties of GitLabApi.execute                                         *)
(***************************************************************************)
\* C26: in every operation a request is sent for an item only when its
\* trimmed project identifier is a numeric id or a slash-delimited path
C26_RequestOnlyForValidProjectId ==
    glRequest.sent => isNumericId(trim(glProjectId)) \/ isPathFormat(trim(glProjectId))

====
